---- MODULE Spec2Model ----
\* Discount engine of the recommendations service (service/models.py):
\* Recommendation.apply_flat_discount_to_accessories and
\* Recommendation.apply_custom_discounts, run against a SQLAlchemy session
\* (pending, in-memory rows) on top of the committed table, next to the
\* other operations of the model on the same session (find, all, update,
\* create, delete) as the endpoints of the records make them, and the
\* endpoint that calls the engine (service/routes.py): DiscountResource.put
\* and validate_discount_percent.
\*   Spec      calls of the methods of the model on one session
\*   InputSpec calls of apply_custom_discounts with arguments of every shape
\*   HttpSpec  PUT /recommendations/apply_discount requests
\*   ConcSpec  two discount calls at the same time, each on a session of its
\*             own, step by step
\*   SeqSpec   successive calls on prices of every amount
\*   SignedSpec calls on a record created with a negative price
\*   UpdateSpec PUT /recommendations/<id> requests with payloads of every kind
EXTENDS Integers, Sequences, FiniteSets, TLC

\* ------------------------------------------------------------------
\* Bounds of the model
\* ------------------------------------------------------------------
\* the last reading of the clock at which a call starts: the clock ticks at
\* every reading of a call, and between two calls
MaxClock == 2
\* entries of one custom-discount mapping
MaxEntries == 2
\* the small prices, in cents, of the calls on prices of every amount
MaxCents == 20

\* ------------------------------------------------------------------
\* Values
\* ------------------------------------------------------------------
\* A nullable price column holding no value (None). Prices are amounts in
\* cents (Numeric(14, 2)); no amount of the model is -0.01.
NULL == -1

\* JSON values of a request body. A number is a percentage kept in
\* hundredths of a percent (10 -> 1000, 0.01 -> 1, 100 -> 10000).
None == [t |-> "null"]
Num(v) == [t |-> "num", v |-> v]
Str(s) == [t |-> "str", v |-> s]
Dict(f) == [t |-> "dict", v |-> f]
List(s) == [t |-> "list", v |-> s]

\* the rows the store holds at first (recommendation_id is assigned by the
\* sequence of the store)
Ids == {1, 2}

\* ------------------------------------------------------------------
\* State
\* ------------------------------------------------------------------
VARIABLES
    store,      \* committed rows: id -> row
    session,    \* rows as the objects of db.session hold them (committed + pending changes)
    flushed,    \* rows as the open transaction holds them: the session at its last flush
    loaded,     \* ids of the objects loaded in the session (in the identity map, not expired)
    sequence,   \* the next value of the sequence of recommendation_id
    clock,      \* datetime.now(timezone.utc): the next reading
    last        \* the call that has just ended: its arguments, outcome and the state before it

vars == <<store, session, flushed, loaded, sequence, clock, last>>

Range(seq) == {seq[k] : k \in DOMAIN seq}

\* ------------------------------------------------------------------
\* Strings
\* ------------------------------------------------------------------
\* Strings are sequences of characters. A character that is no printable
\* ASCII character is written by its escape; the letters of the model are
\* ASCII letters.
\* the capital letters and, at the same index, their lower-case forms
Capitals == <<"A", "B", "C", "D", "E", "F", "G", "H", "I", "J", "K", "L", "M",
              "N", "O", "P", "Q", "R", "S", "T", "U", "V", "W", "X", "Y", "Z">>
Smalls == <<"a", "b", "c", "d", "e", "f", "g", "h", "i", "j", "k", "l", "m",
            "n", "o", "p", "q", "r", "s", "t", "u", "v", "w", "x", "y", "z">>

\* c.lower() of one character: every capital is lowered, any other
\* character is kept
lower(c) ==
    IF \E k \in DOMAIN Capitals : Capitals[k] = c
    THEN Smalls[CHOOSE k \in DOMAIN Capitals : Capitals[k] = c]
    ELSE c

\* the characters str.strip() removes, those of str.isspace(): the blank,
\* the controls U+0009..U+000D and U+001C..U+001F, U+0085 and the spaces
\* of Unicode
Whitespace ==
    {" ", "\t", "\n", "\\x0b", "\f", "\r", "\\x1c", "\\x1d", "\\x1e", "\\x1f",
     "\\x85", "\\xa0", "\\u1680", "\\u2000", "\\u2001", "\\u2002", "\\u2003",
     "\\u2004", "\\u2005", "\\u2006", "\\u2007", "\\u2008", "\\u2009", "\\u200a",
     "\\u2028", "\\u2029", "\\u202f", "\\u205f", "\\u3000"}

\* s.strip(): the string without its leading and trailing whitespace
RECURSIVE strip(_)
strip(s) ==
    IF Len(s) = 0 THEN s
    ELSE IF s[1] \in Whitespace THEN strip(Tail(s))
    ELSE IF s[Len(s)] \in Whitespace THEN strip(SubSeq(s, 1, Len(s) - 1))
    ELSE s

REC_TYPE_VALUES == {"cross-sell", "up-sell", "accessory"}
STATUS_VALUES == {"active", "inactive"}

\* the characters of the name of an enum value
chars(name) ==
    CASE name = "cross-sell" -> <<"c", "r", "o", "s", "s", "-", "s", "e", "l", "l">>
      [] name = "up-sell" -> <<"u", "p", "-", "s", "e", "l", "l">>
      [] name = "accessory" -> <<"a", "c", "c", "e", "s", "s", "o", "r", "y">>
      [] name = "active" -> <<"a", "c", "t", "i", "v", "e">>
      [] name = "inactive" -> <<"i", "n", "a", "c", "t", "i", "v", "e">>

\* ------------------------------------------------------------------
\* Session
\* ------------------------------------------------------------------
\* What a call runs on: the committed rows, the rows as the objects of the
\* session hold them, the rows as the session last flushed them into its
\* transaction, the ids of the objects loaded in the session, and the clock.
\* The clock ticks at every reading.
Db(st, sess, fl, ld, now) ==
    [store |-> st, session |-> sess, flushed |-> fl, loaded |-> ld, clock |-> now]

\* the rows whose UPDATE does not name updated_date: a column of the row
\* changed since the last flush and updated_date did not
onupdate_rows(db) ==
    {i \in DOMAIN db.session :
        /\ db.session[i] # db.flushed[i]
        /\ db.session[i].updated_date = db.flushed[i].updated_date}

\* session.flush(): the UPDATE of every row changed since the last flush, in
\* the order of the ids. An UPDATE that does not set updated_date takes the
\* onupdate value of the column, a reading of the clock of its own, and the
\* object gets that value.
flush(db) ==
    LET rows == onupdate_rows(db)
        sent == [i \in DOMAIN db.session |->
                    IF i \in rows
                    THEN [db.session[i] EXCEPT
                              !.updated_date = db.clock + Cardinality({j \in rows : j < i})]
                    ELSE db.session[i]]
    IN  [db EXCEPT !.session = sent, !.flushed = sent, !.clock = @ + Cardinality(rows)]

\* db.session.commit(): the session is flushed, the transaction is
\* committed and every object expires
commit(db) ==
    LET sent == flush(db)
    IN  [sent EXCEPT !.store = sent.session, !.loaded = {}]

rollback_keeps_pending(db) == db
\* db.session.rollback(): what was flushed and what is pending is discarded,
\* every object expires and is read from the store again
rollback(db) == [db EXCEPT !.session = db.store, !.flushed = db.store, !.loaded = {}]

\* cls.query.session.get(cls, by_id): an object loaded in the session is
\* returned as it is; otherwise the session flushes (autoflush) and SELECTs
\* the row, and the result is the object, or None when no row has this id
find(db, by_id) ==
    IF by_id \in db.loaded
    THEN [db |-> db, row |-> db.session[by_id]]
    ELSE LET sent == flush(db)
         IN  IF by_id \in DOMAIN sent.session
             THEN [db |-> [sent EXCEPT !.loaded = @ \cup {by_id}],
                   row |-> sent.session[by_id]]
             ELSE [db |-> sent, row |-> None]

\* norm = rec_type.strip().lower(); cls.query.filter(cls.recommendation_type
\* == norm): ids of the matching rows
find_by_recommendation_type(sess, rec_type) ==
    LET stripped == strip(rec_type)
        norm == [k \in DOMAIN stripped |-> lower(stripped[k])]
    IN  {i \in DOMAIN sess : chars(sess[i].recommendation_type) = norm}

\* ------------------------------------------------------------------
\* Price arithmetic
\* ------------------------------------------------------------------
\* (Decimal("100") - pct) / Decimal("100"), scaled by 10^4
discount_multiplier(pct) == 10000 - pct

quantize_half_even(n) ==
    LET q == n \div 10000
        r == n % 10000
    IN  IF 2 * r > 10000 \/ (2 * r = 10000 /\ q % 2 = 1) THEN q + 1 ELSE q
\* .quantize(Decimal("0.01"), rounding=ROUND_HALF_UP) of n / 10^4 cents: the
\* nearest cent, a tie away from zero
quantize(n) ==
    LET m == IF n < 0 THEN 0 - n ELSE n
        q == m \div 10000
        r == m % 10000
        h == IF 2 * r >= 10000 THEN q + 1 ELSE q
    IN  IF n < 0 THEN 0 - h ELSE h

discounted_price_truncated(price, multiplier) == (price * multiplier) \div 10000
\* (price * multiplier).quantize(...)
discounted_price(price, multiplier) == quantize(price * multiplier)

\* ------------------------------------------------------------------
\* Outcomes of a call
\* ------------------------------------------------------------------
\* what a call leaves behind: the database and the session, how the call
\* ended (the exception raised, or "ok"), the ids collected so far, the
\* returned list, the number of mapping entries fully processed, what became
\* of the commit, and the timestamp the call read (0: none)
Outcome(db, how, ids, processed, committed, ts) ==
    [session |-> db.session, store |-> db.store, flushed |-> db.flushed,
     loaded |-> db.loaded, clock |-> db.clock, outcome |-> how, ids |-> ids,
     result |-> IF how = "ok" THEN ids ELSE <<>>,
     count |-> IF how = "ok" THEN Len(ids) ELSE 0,
     processed |-> processed, commit |-> committed, ts |-> ts]

finish_commits_row_by_row(db, ids, processed, ts, commitOk) ==
    IF commitOk
    THEN Outcome(commit(db), "ok", ids, processed, "ok", ts)
    ELSE Outcome([rollback(db) EXCEPT
                      !.store = IF ids = <<>> THEN @
                                ELSE [@ EXCEPT ![ids[1]] = db.session[ids[1]]]],
                 "DataValidationError", ids, processed, "failed", ts)
\* try: db.session.commit() / except: db.session.rollback(); raise
\* DataValidationError. A commit that fails fails at its first statement.
finish(db, ids, processed, ts, commitOk) ==
    IF commitOk
    THEN Outcome(commit(db), "ok", ids, processed, "ok", ts)
    ELSE Outcome(rollback(db), "DataValidationError", ids, processed, "failed", ts)

\* ------------------------------------------------------------------
\* apply_flat_discount_to_accessories
\* ------------------------------------------------------------------
flat_was_updated_always(row) == TRUE
\* recommendation_was_updated of the flat loop: a price was not None
flat_was_updated(row) ==
    row.base_product_price # NULL \/ row.recommended_product_price # NULL

flat_row_discounts_null(row, multiplier, ts) ==
    [row EXCEPT !.base_product_price =
                    discounted_price(IF @ = NULL THEN 0 ELSE @, multiplier),
                !.recommended_product_price =
                    discounted_price(IF @ = NULL THEN 0 ELSE @, multiplier),
                !.updated_date = ts]
flat_row_base_only(row, multiplier, ts) ==
    [row EXCEPT !.base_product_price =
                    IF @ # NULL THEN discounted_price(@, multiplier) ELSE @,
                !.updated_date = IF flat_was_updated(row) THEN ts ELSE @]
\* one pass of the flat loop over a row: each price that is not None is
\* discounted, and the row is stamped when one was
flat_row(row, multiplier, ts) ==
    [row EXCEPT !.base_product_price =
                    IF @ # NULL THEN discounted_price(@, multiplier) ELSE @,
                !.recommended_product_price =
                    IF @ # NULL THEN discounted_price(@, multiplier) ELSE @,
                !.updated_date = IF flat_was_updated(row) THEN ts ELSE @]

\* for recommendation in accessory_recommendations: ...
RECURSIVE flat_loop(_, _, _, _, _, _)
flat_loop(order, k, sess, ids, multiplier, ts) ==
    IF k > Len(order)
    THEN [session |-> sess, ids |-> ids]
    ELSE LET i == order[k]
         IN  flat_loop(order, k + 1,
                       [sess EXCEPT ![i] = flat_row(sess[i], multiplier, ts)],
                       IF flat_was_updated(sess[i]) THEN Append(ids, i) ELSE ids,
                       multiplier, ts)

\* the orders in which a query without ORDER BY can return the rows S
Orders(S) ==
    {o \in [1..Cardinality(S) -> S] : \A i, j \in DOMAIN o : i # j => o[i] # o[j]}

\* Recommendation.apply_flat_discount_to_accessories(discount_percentage). The
\* accessory query flushes the session (autoflush) and returns its rows in
\* the given order; the timestamp is read after it.
apply_flat_discount_to_accessories(db, pct, order, commitOk) ==
    IF pct <= 0 \/ pct >= 10000
    THEN Outcome(db, "DataValidationError", <<>>, 0, "none", 0)
    ELSE LET queried == [flush(db) EXCEPT !.loaded = @ \cup Range(order)]
         IN  IF Len(order) = 0
             THEN Outcome(queried, "ResourceNotFoundError", <<>>, 0, "none", 0)
             ELSE LET ts == queried.clock
                      run == flat_loop(order, 1, queried.session, <<>>,
                                       discount_multiplier(pct), ts)
                      looped == [queried EXCEPT !.session = run.session, !.clock = ts + 1]
                  IN  IF run.ids = <<>>
                      THEN Outcome(looped, "ResourceNotFoundError", <<>>, 0, "none", ts)
                      ELSE finish(looped, run.ids, Len(order), ts, commitOk)

\* ------------------------------------------------------------------
\* apply_custom_discounts
\* ------------------------------------------------------------------
Digits == {"0", "1", "2", "3", "4", "5", "6", "7", "8", "9"}

\* the decimal digits of Unicode (category Nd): at index v + 1 the
\* characters whose digit value is v
DecimalDigits ==
    <<{"0", "\\u0660", "\\u06f0", "\\u07c0", "\\u0966", "\\u09e6", "\\u0a66",
       "\\u0ae6", "\\u0b66", "\\u0be6", "\\u0c66", "\\u0ce6", "\\u0d66",
       "\\u0de6", "\\u0e50", "\\u0ed0", "\\u0f20", "\\u1040", "\\u1090",
       "\\u17e0", "\\u1810", "\\u1946", "\\u19d0", "\\u1a80", "\\u1a90",
       "\\u1b50", "\\u1bb0", "\\u1c40", "\\u1c50", "\\ua620", "\\ua8d0",
       "\\ua900", "\\ua9d0", "\\ua9f0", "\\uaa50", "\\uabf0", "\\uff10",
       "\\U000104a0", "\\U00010d30", "\\U00011066", "\\U000110f0",
       "\\U00011136", "\\U000111d0", "\\U000112f0", "\\U00011450",
       "\\U000114d0", "\\U00011650", "\\U000116c0", "\\U00011730",
       "\\U000118e0", "\\U00011950", "\\U00011c50", "\\U00011d50",
       "\\U00011da0", "\\U00016a60", "\\U00016ac0", "\\U00016b50",
       "\\U0001d7ce", "\\U0001d7d8", "\\U0001d7e2", "\\U0001d7ec",
       "\\U0001d7f6", "\\U0001e140", "\\U0001e2f0", "\\U0001e950",
       "\\U0001fbf0"},
      {"1", "\\u0661", "\\u06f1", "\\u07c1", "\\u0967", "\\u09e7", "\\u0a67",
       "\\u0ae7", "\\u0b67", "\\u0be7", "\\u0c67", "\\u0ce7", "\\u0d67",
       "\\u0de7", "\\u0e51", "\\u0ed1", "\\u0f21", "\\u1041", "\\u1091",
       "\\u17e1", "\\u1811", "\\u1947", "\\u19d1", "\\u1a81", "\\u1a91",
       "\\u1b51", "\\u1bb1", "\\u1c41", "\\u1c51", "\\ua621", "\\ua8d1",
       "\\ua901", "\\ua9d1", "\\ua9f1", "\\uaa51", "\\uabf1", "\\uff11",
       "\\U000104a1", "\\U00010d31", "\\U00011067", "\\U000110f1",
       "\\U00011137", "\\U000111d1", "\\U000112f1", "\\U00011451",
       "\\U000114d1", "\\U00011651", "\\U000116c1", "\\U00011731",
       "\\U000118e1", "\\U00011951", "\\U00011c51", "\\U00011d51",
       "\\U00011da1", "\\U00016a61", "\\U00016ac1", "\\U00016b51",
       "\\U0001d7cf", "\\U0001d7d9", "\\U0001d7e3", "\\U0001d7ed",
       "\\U0001d7f7", "\\U0001e141", "\\U0001e2f1", "\\U0001e951",
       "\\U0001fbf1"},
      {"2", "\\u0662", "\\u06f2", "\\u07c2", "\\u0968", "\\u09e8", "\\u0a68",
       "\\u0ae8", "\\u0b68", "\\u0be8", "\\u0c68", "\\u0ce8", "\\u0d68",
       "\\u0de8", "\\u0e52", "\\u0ed2", "\\u0f22", "\\u1042", "\\u1092",
       "\\u17e2", "\\u1812", "\\u1948", "\\u19d2", "\\u1a82", "\\u1a92",
       "\\u1b52", "\\u1bb2", "\\u1c42", "\\u1c52", "\\ua622", "\\ua8d2",
       "\\ua902", "\\ua9d2", "\\ua9f2", "\\uaa52", "\\uabf2", "\\uff12",
       "\\U000104a2", "\\U00010d32", "\\U00011068", "\\U000110f2",
       "\\U00011138", "\\U000111d2", "\\U000112f2", "\\U00011452",
       "\\U000114d2", "\\U00011652", "\\U000116c2", "\\U00011732",
       "\\U000118e2", "\\U00011952", "\\U00011c52", "\\U00011d52",
       "\\U00011da2", "\\U00016a62", "\\U00016ac2", "\\U00016b52",
       "\\U0001d7d0", "\\U0001d7da", "\\U0001d7e4", "\\U0001d7ee",
       "\\U0001d7f8", "\\U0001e142", "\\U0001e2f2", "\\U0001e952",
       "\\U0001fbf2"},
      {"3", "\\u0663", "\\u06f3", "\\u07c3", "\\u0969", "\\u09e9", "\\u0a69",
       "\\u0ae9", "\\u0b69", "\\u0be9", "\\u0c69", "\\u0ce9", "\\u0d69",
       "\\u0de9", "\\u0e53", "\\u0ed3", "\\u0f23", "\\u1043", "\\u1093",
       "\\u17e3", "\\u1813", "\\u1949", "\\u19d3", "\\u1a83", "\\u1a93",
       "\\u1b53", "\\u1bb3", "\\u1c43", "\\u1c53", "\\ua623", "\\ua8d3",
       "\\ua903", "\\ua9d3", "\\ua9f3", "\\uaa53", "\\uabf3", "\\uff13",
       "\\U000104a3", "\\U00010d33", "\\U00011069", "\\U000110f3",
       "\\U00011139", "\\U000111d3", "\\U000112f3", "\\U00011453",
       "\\U000114d3", "\\U00011653", "\\U000116c3", "\\U00011733",
       "\\U000118e3", "\\U00011953", "\\U00011c53", "\\U00011d53",
       "\\U00011da3", "\\U00016a63", "\\U00016ac3", "\\U00016b53",
       "\\U0001d7d1", "\\U0001d7db", "\\U0001d7e5", "\\U0001d7ef",
       "\\U0001d7f9", "\\U0001e143", "\\U0001e2f3", "\\U0001e953",
       "\\U0001fbf3"},
      {"4", "\\u0664", "\\u06f4", "\\u07c4", "\\u096a", "\\u09ea", "\\u0a6a",
       "\\u0aea", "\\u0b6a", "\\u0bea", "\\u0c6a", "\\u0cea", "\\u0d6a",
       "\\u0dea", "\\u0e54", "\\u0ed4", "\\u0f24", "\\u1044", "\\u1094",
       "\\u17e4", "\\u1814", "\\u194a", "\\u19d4", "\\u1a84", "\\u1a94",
       "\\u1b54", "\\u1bb4", "\\u1c44", "\\u1c54", "\\ua624", "\\ua8d4",
       "\\ua904", "\\ua9d4", "\\ua9f4", "\\uaa54", "\\uabf4", "\\uff14",
       "\\U000104a4", "\\U00010d34", "\\U0001106a", "\\U000110f4",
       "\\U0001113a", "\\U000111d4", "\\U000112f4", "\\U00011454",
       "\\U000114d4", "\\U00011654", "\\U000116c4", "\\U00011734",
       "\\U000118e4", "\\U00011954", "\\U00011c54", "\\U00011d54",
       "\\U00011da4", "\\U00016a64", "\\U00016ac4", "\\U00016b54",
       "\\U0001d7d2", "\\U0001d7dc", "\\U0001d7e6", "\\U0001d7f0",
       "\\U0001d7fa", "\\U0001e144", "\\U0001e2f4", "\\U0001e954",
       "\\U0001fbf4"},
      {"5", "\\u0665", "\\u06f5", "\\u07c5", "\\u096b", "\\u09eb", "\\u0a6b",
       "\\u0aeb", "\\u0b6b", "\\u0beb", "\\u0c6b", "\\u0ceb", "\\u0d6b",
       "\\u0deb", "\\u0e55", "\\u0ed5", "\\u0f25", "\\u1045", "\\u1095",
       "\\u17e5", "\\u1815", "\\u194b", "\\u19d5", "\\u1a85", "\\u1a95",
       "\\u1b55", "\\u1bb5", "\\u1c45", "\\u1c55", "\\ua625", "\\ua8d5",
       "\\ua905", "\\ua9d5", "\\ua9f5", "\\uaa55", "\\uabf5", "\\uff15",
       "\\U000104a5", "\\U00010d35", "\\U0001106b", "\\U000110f5",
       "\\U0001113b", "\\U000111d5", "\\U000112f5", "\\U00011455",
       "\\U000114d5", "\\U00011655", "\\U000116c5", "\\U00011735",
       "\\U000118e5", "\\U00011955", "\\U00011c55", "\\U00011d55",
       "\\U00011da5", "\\U00016a65", "\\U00016ac5", "\\U00016b55",
       "\\U0001d7d3", "\\U0001d7dd", "\\U0001d7e7", "\\U0001d7f1",
       "\\U0001d7fb", "\\U0001e145", "\\U0001e2f5", "\\U0001e955",
       "\\U0001fbf5"},
      {"6", "\\u0666", "\\u06f6", "\\u07c6", "\\u096c", "\\u09ec", "\\u0a6c",
       "\\u0aec", "\\u0b6c", "\\u0bec", "\\u0c6c", "\\u0cec", "\\u0d6c",
       "\\u0dec", "\\u0e56", "\\u0ed6", "\\u0f26", "\\u1046", "\\u1096",
       "\\u17e6", "\\u1816", "\\u194c", "\\u19d6", "\\u1a86", "\\u1a96",
       "\\u1b56", "\\u1bb6", "\\u1c46", "\\u1c56", "\\ua626", "\\ua8d6",
       "\\ua906", "\\ua9d6", "\\ua9f6", "\\uaa56", "\\uabf6", "\\uff16",
       "\\U000104a6", "\\U00010d36", "\\U0001106c", "\\U000110f6",
       "\\U0001113c", "\\U000111d6", "\\U000112f6", "\\U00011456",
       "\\U000114d6", "\\U00011656", "\\U000116c6", "\\U00011736",
       "\\U000118e6", "\\U00011956", "\\U00011c56", "\\U00011d56",
       "\\U00011da6", "\\U00016a66", "\\U00016ac6", "\\U00016b56",
       "\\U0001d7d4", "\\U0001d7de", "\\U0001d7e8", "\\U0001d7f2",
       "\\U0001d7fc", "\\U0001e146", "\\U0001e2f6", "\\U0001e956",
       "\\U0001fbf6"},
      {"7", "\\u0667", "\\u06f7", "\\u07c7", "\\u096d", "\\u09ed", "\\u0a6d",
       "\\u0aed", "\\u0b6d", "\\u0bed", "\\u0c6d", "\\u0ced", "\\u0d6d",
       "\\u0ded", "\\u0e57", "\\u0ed7", "\\u0f27", "\\u1047", "\\u1097",
       "\\u17e7", "\\u1817", "\\u194d", "\\u19d7", "\\u1a87", "\\u1a97",
       "\\u1b57", "\\u1bb7", "\\u1c47", "\\u1c57", "\\ua627", "\\ua8d7",
       "\\ua907", "\\ua9d7", "\\ua9f7", "\\uaa57", "\\uabf7", "\\uff17",
       "\\U000104a7", "\\U00010d37", "\\U0001106d", "\\U000110f7",
       "\\U0001113d", "\\U000111d7", "\\U000112f7", "\\U00011457",
       "\\U000114d7", "\\U00011657", "\\U000116c7", "\\U00011737",
       "\\U000118e7", "\\U00011957", "\\U00011c57", "\\U00011d57",
       "\\U00011da7", "\\U00016a67", "\\U00016ac7", "\\U00016b57",
       "\\U0001d7d5", "\\U0001d7df", "\\U0001d7e9", "\\U0001d7f3",
       "\\U0001d7fd", "\\U0001e147", "\\U0001e2f7", "\\U0001e957",
       "\\U0001fbf7"},
      {"8", "\\u0668", "\\u06f8", "\\u07c8", "\\u096e", "\\u09ee", "\\u0a6e",
       "\\u0aee", "\\u0b6e", "\\u0bee", "\\u0c6e", "\\u0cee", "\\u0d6e",
       "\\u0dee", "\\u0e58", "\\u0ed8", "\\u0f28", "\\u1048", "\\u1098",
       "\\u17e8", "\\u1818", "\\u194e", "\\u19d8", "\\u1a88", "\\u1a98",
       "\\u1b58", "\\u1bb8", "\\u1c48", "\\u1c58", "\\ua628", "\\ua8d8",
       "\\ua908", "\\ua9d8", "\\ua9f8", "\\uaa58", "\\uabf8", "\\uff18",
       "\\U000104a8", "\\U00010d38", "\\U0001106e", "\\U000110f8",
       "\\U0001113e", "\\U000111d8", "\\U000112f8", "\\U00011458",
       "\\U000114d8", "\\U00011658", "\\U000116c8", "\\U00011738",
       "\\U000118e8", "\\U00011958", "\\U00011c58", "\\U00011d58",
       "\\U00011da8", "\\U00016a68", "\\U00016ac8", "\\U00016b58",
       "\\U0001d7d6", "\\U0001d7e0", "\\U0001d7ea", "\\U0001d7f4",
       "\\U0001d7fe", "\\U0001e148", "\\U0001e2f8", "\\U0001e958",
       "\\U0001fbf8"},
      {"9", "\\u0669", "\\u06f9", "\\u07c9", "\\u096f", "\\u09ef", "\\u0a6f",
       "\\u0aef", "\\u0b6f", "\\u0bef", "\\u0c6f", "\\u0cef", "\\u0d6f",
       "\\u0def", "\\u0e59", "\\u0ed9", "\\u0f29", "\\u1049", "\\u1099",
       "\\u17e9", "\\u1819", "\\u194f", "\\u19d9", "\\u1a89", "\\u1a99",
       "\\u1b59", "\\u1bb9", "\\u1c49", "\\u1c59", "\\ua629", "\\ua8d9",
       "\\ua909", "\\ua9d9", "\\ua9f9", "\\uaa59", "\\uabf9", "\\uff19",
       "\\U000104a9", "\\U00010d39", "\\U0001106f", "\\U000110f9",
       "\\U0001113f", "\\U000111d9", "\\U000112f9", "\\U00011459",
       "\\U000114d9", "\\U00011659", "\\U000116c9", "\\U00011739",
       "\\U000118e9", "\\U00011959", "\\U00011c59", "\\U00011d59",
       "\\U00011da9", "\\U00016a69", "\\U00016ac9", "\\U00016b59",
       "\\U0001d7d7", "\\U0001d7e1", "\\U0001d7eb", "\\U0001d7f5",
       "\\U0001d7ff", "\\U0001e149", "\\U0001e2f9", "\\U0001e959",
       "\\U0001fbf9"}>>

AllDigits == UNION {DecimalDigits[v] : v \in DOMAIN DecimalDigits}

DigitValue(c) == (CHOOSE v \in DOMAIN DecimalDigits : c \in DecimalDigits[v]) - 1

\* the value of a string of decimal digits, base 10
RECURSIVE digits_value(_)
digits_value(digits) ==
    IF Len(digits) = 0 THEN 0
    ELSE 10 * digits_value(SubSeq(digits, 1, Len(digits) - 1))
         + DigitValue(digits[Len(digits)])

\* a non-empty string of ASCII digits
is_numeral(digits) == Len(digits) > 0 /\ \A i \in DOMAIN digits : digits[i] \in Digits

\* the whitespace int() skips around a numeral: that of str.strip() but
\* for the separators U+001C..U+001F
IntWhitespace == Whitespace \ {"\\x1c", "\\x1d", "\\x1e", "\\x1f"}

RECURSIVE int_strip(_)
int_strip(s) ==
    IF Len(s) = 0 THEN s
    ELSE IF s[1] \in IntWhitespace THEN int_strip(Tail(s))
    ELSE IF s[Len(s)] \in IntWhitespace THEN int_strip(SubSeq(s, 1, Len(s) - 1))
    ELSE s

\* the numeral of a key without the whitespace around it and without its sign
int_body(key) ==
    LET s == int_strip(key)
    IN  IF Len(s) > 0 /\ s[1] \in {"+", "-"} THEN Tail(s) ELSE s

\* sys.get_int_max_str_digits(): the most digits int() converts, by default
int_max_str_digits == 4300

\* int(recommendation_id_str) raises ValueError unless the key is, between
\* optional whitespace, an optional sign and then decimal digits, with single
\* underscores allowed between two digits, and has no more digits, leading
\* zeros included, than the limit of the conversion
is_numeric_key(key) ==
    LET body == int_body(key)
    IN  /\ Len(body) > 0
        /\ Len(SelectSeq(body, LAMBDA c : c # "_")) <= int_max_str_digits
        /\ body[1] \in AllDigits
        /\ body[Len(body)] \in AllDigits
        /\ \A i \in DOMAIN body :
              \/ body[i] \in AllDigits
              \/ body[i] = "_" /\ body[i - 1] # "_"

\* int(recommendation_id_str) of such a key
int(key) ==
    LET s == int_strip(key)
        value == digits_value(SelectSeq(int_body(key), LAMBDA c : c # "_"))
    IN  IF Len(s) > 0 /\ s[1] = "-" THEN 0 - value ELSE value

\* discount_config.get(name)
dict_get(d, name) == IF name \in DOMAIN d THEN d[name] ELSE None

\* "pct <= 0 or pct >= 100" of a JSON number
out_of_range(pct) == pct.v <= 0 \/ pct.v >= 10000

\* the percentage checks of one entry, base first: "ok", or the exception
\* raised. Comparing a value that is no number with 0 raises TypeError.
percent_checks(base_pct, rec_pct) ==
    IF base_pct # None /\ base_pct.t # "num" THEN "TypeError"
    ELSE IF base_pct # None /\ out_of_range(base_pct) THEN "DataValidationError"
    ELSE IF rec_pct # None /\ rec_pct.t # "num" THEN "TypeError"
    ELSE IF rec_pct # None /\ out_of_range(rec_pct) THEN "DataValidationError"
    ELSE "ok"

\* the checks of one mapping entry made before its record is looked up
entry_checks(key, config) ==
    IF ~is_numeric_key(key) THEN "DataValidationError"
    ELSE IF config.t # "dict" \/ DOMAIN config.v = {} THEN "DataValidationError"
    ELSE LET base_pct == dict_get(config.v, "base_product_price")
             rec_pct == dict_get(config.v, "recommended_product_price")
         IN  IF base_pct = None /\ rec_pct = None THEN "DataValidationError"
             ELSE percent_checks(base_pct, rec_pct)

\* recommendation_was_updated of the custom loop: a supplied percentage met a
\* price that is not None
custom_was_updated(row, base_pct, rec_pct) ==
    \/ base_pct # None /\ row.base_product_price # NULL
    \/ rec_pct # None /\ row.recommended_product_price # NULL

custom_row_one_percent(row, base_pct, rec_pct, ts) ==
    LET pct == IF base_pct # None THEN base_pct ELSE rec_pct
    IN  [row EXCEPT !.base_product_price =
                    IF base_pct # None /\ @ # NULL
                    THEN discounted_price(@, discount_multiplier(pct.v)) ELSE @,
                !.recommended_product_price =
                    IF rec_pct # None /\ @ # NULL
                    THEN discounted_price(@, discount_multiplier(pct.v)) ELSE @,
                !.updated_date =
                    IF custom_was_updated(row, base_pct, rec_pct) THEN ts ELSE @]
\* one pass of the custom loop over a found row: each price that is not None
\* and whose percentage was supplied is discounted by that percentage, and the
\* row is stamped when one was
custom_row(row, base_pct, rec_pct, ts) ==
    [row EXCEPT !.base_product_price =
                    IF base_pct # None /\ @ # NULL
                    THEN discounted_price(@, discount_multiplier(base_pct.v)) ELSE @,
                !.recommended_product_price =
                    IF rec_pct # None /\ @ # NULL
                    THEN discounted_price(@, discount_multiplier(rec_pct.v)) ELSE @,
                !.updated_date =
                    IF custom_was_updated(row, base_pct, rec_pct) THEN ts ELSE @]

\* for recommendation_id_str, discount_config in mappings.items(): ...
\* An entry that fails a check raises at once, with the rows of the entries
\* before it already changed in the session.
RECURSIVE custom_loop(_, _, _, _, _)
custom_loop(items, k, db, ids, ts) ==
    IF k > Len(items)
    THEN [db |-> db, ids |-> ids, outcome |-> "ok", processed |-> Len(items)]
    ELSE LET key == items[k].key
             config == items[k].config
             checked == entry_checks(key, config)
         IN  IF checked # "ok"
             THEN [db |-> db, ids |-> ids, outcome |-> checked, processed |-> k - 1]
             ELSE LET base_pct == dict_get(config.v, "base_product_price")
                      rec_pct == dict_get(config.v, "recommended_product_price")
                      id == int(key)
                      found == find(db, id)
                  IN  IF found.row = None
                      THEN custom_loop(items, k + 1, found.db, ids, ts)
                      ELSE custom_loop(
                               items, k + 1,
                               [found.db EXCEPT !.session[id] =
                                    custom_row(found.row, base_pct, rec_pct, ts)],
                               IF custom_was_updated(found.row, base_pct, rec_pct)
                               THEN Append(ids, id) ELSE ids,
                               ts)

\* Recommendation.apply_custom_discounts(recommendation_discount_mappings); a
\* dict argument is the sequence of its items in iteration order. The
\* timestamp is read before the loop.
apply_custom_discounts(db, mappings, commitOk) ==
    IF mappings.t # "dict" \/ Len(mappings.v) = 0
    THEN Outcome(db, "DataValidationError", <<>>, 0, "none", 0)
    ELSE LET ts == db.clock
             run == custom_loop(mappings.v, 1, [db EXCEPT !.clock = ts + 1], <<>>, ts)
         IN  IF run.outcome # "ok"
             THEN Outcome(run.db, run.outcome, run.ids, run.processed, "none", ts)
             ELSE finish(run.db, run.ids, run.processed, ts, commitOk)

\* ------------------------------------------------------------------
\* DiscountResource.put: the status code of an outcome
\* ------------------------------------------------------------------
\* return ..., 200 / except DataValidationError: abort(400) /
\* except ResourceNotFoundError: abort(404); any other exception is a 500
http_status(outcome) ==
    CASE outcome = "ok" -> 200
      [] outcome = "DataValidationError" -> 400
      [] outcome = "ResourceNotFoundError" -> 404
      [] OTHER -> 500

\* ------------------------------------------------------------------
\* validate_discount_percent (routes.py)
\* ------------------------------------------------------------------
\* The strings of the model carry a sign, digits, a point and letters: no
\* exponent, blank or underscore.
RECURSIVE Pow10(_)
Pow10(n) == IF n = 0 THEN 1 ELSE 10 * Pow10(n - 1)

\* what Decimal(...) made of a string: the number coeff / 10^places with its
\* sign, an infinity, a NaN, or no Decimal at all (InvalidOperation is raised)
DecimalValue(kind, negative, coeff, places) ==
    [kind |-> kind, negative |-> negative, coeff |-> coeff, places |-> places]

\* Decimal(str(value)) of a string: [sign] digits [. digits] | [sign] . digits
\* | [sign] Inf | [sign] Infinity | [sign] NaN [digits] | [sign] sNaN [digits],
\* letters in either case
Decimal(value) ==
    LET signed == Len(value) > 0 /\ value[1] \in {"+", "-"}
        negative == signed /\ value[1] = "-"
        body == IF signed THEN Tail(value) ELSE value
        word == [k \in DOMAIN body |-> lower(body[k])]
        points == {k \in DOMAIN body : body[k] = "."}
        digits == SelectSeq(body, LAMBDA c : c # ".")
        nan == IF Len(word) > 0 /\ word[1] = "s" THEN Tail(word) ELSE word
    IN  IF /\ Len(nan) >= 3 /\ SubSeq(nan, 1, 3) = <<"n", "a", "n">>
           /\ \A k \in 4..Len(nan) : nan[k] \in Digits
        THEN DecimalValue("NaN", negative, 0, 0)
        ELSE IF word \in {<<"i", "n", "f">>, <<"i", "n", "f", "i", "n", "i", "t", "y">>}
        THEN DecimalValue("Infinity", negative, 0, 0)
        ELSE IF Cardinality(points) <= 1 /\ is_numeral(digits)
        THEN DecimalValue("finite", negative, digits_value(digits),
                          IF points = {} THEN 0
                          ELSE Len(body) - (CHOOSE k \in points : TRUE))
        ELSE DecimalValue("InvalidOperation", FALSE, 0, 0)

\* pct <= Decimal("0") of a Decimal that is no NaN
decimal_le_zero(pct) ==
    \/ pct.kind = "Infinity" /\ pct.negative
    \/ pct.kind = "finite" /\ (pct.negative \/ pct.coeff = 0)

\* pct >= Decimal("100") of a Decimal that is no NaN
decimal_ge_hundred(pct) ==
    /\ ~pct.negative
    /\ \/ pct.kind = "Infinity"
       \/ pct.kind = "finite" /\ pct.coeff >= 100 * Pow10(pct.places)

\* validate_discount_percent(value): the Decimal, or abort(400, "Discount must
\* be between 0 and 100") when the string is no Decimal or the Decimal is out
\* of range. Ordering a NaN against Decimal("0") raises InvalidOperation
\* outside the try block, and nothing catches it.
validate_discount_percent(value) ==
    LET pct == Decimal(value)
    IN  IF pct.kind = "InvalidOperation"
        THEN [outcome |-> "abort", pct |-> pct]
        ELSE IF pct.kind = "NaN"
        THEN [outcome |-> "InvalidOperation", pct |-> pct]
        ELSE IF decimal_le_zero(pct) \/ decimal_ge_hundred(pct)
        THEN [outcome |-> "abort", pct |-> pct]
        ELSE [outcome |-> "ok", pct |-> pct]

\* the Decimal as the percentage the engine computes with, in hundredths of a
\* percent (the values of the model have at most two decimal places)
hundredths(pct) == pct.coeff * Pow10(2 - pct.places)

\* ------------------------------------------------------------------
\* Recommendation.update, create and delete
\* ------------------------------------------------------------------
\* _normalize_required_str: str(value).strip().lower() of a string
normalize_required_str(value) ==
    LET s == strip(value.v) IN [k \in DOMAIN s |-> lower(s[k])]

\* _set_enum: the field takes the normalized value when it is one of the
\* allowed ones
set_enum(row, field, value, allowed) ==
    LET s == normalize_required_str(value)
    IN  IF Len(s) = 0 \/ \A name \in allowed : chars(name) # s
        THEN [outcome |-> "DataValidationError", row |-> row]
        ELSE [outcome |-> "ok",
              row |-> [row EXCEPT ![field] = CHOOSE name \in allowed : chars(name) = s]]

\* _set_confidence_score: Decimal(str(value)) of a JSON number (hundredths)
\* or string, kept when it is in [0, 1]. Ordering a NaN against Decimal("0")
\* raises InvalidOperation outside the try block.
set_confidence_score(row, value) ==
    LET cs == IF value.t = "num"
              THEN DecimalValue("finite", value.v < 0,
                                IF value.v < 0 THEN 0 - value.v ELSE value.v, 2)
              ELSE Decimal(value.v)
    IN  IF cs.kind = "InvalidOperation"
        THEN [outcome |-> "DataValidationError", row |-> row]
        ELSE IF cs.kind = "NaN"
        THEN [outcome |-> "InvalidOperation", row |-> row]
        ELSE IF \/ cs.kind = "Infinity"
                \/ cs.negative /\ cs.coeff > 0
                \/ ~cs.negative /\ cs.coeff > Pow10(cs.places)
        THEN [outcome |-> "DataValidationError", row |-> row]
        ELSE [outcome |-> "ok",
              row |-> [row EXCEPT !.confidence_score = cs.coeff * Pow10(2 - cs.places)]]

\* the loop of update over the items of the payload, from item k on: each
\* handler sets its attribute at once, and the first failure ends the loop
RECURSIVE update_loop(_, _, _)
update_loop(row, data, k) ==
    IF k > Len(data) THEN [outcome |-> "ok", row |-> row]
    ELSE LET key == data[k].key
             val == data[k].value
             step == IF key = "recommendation_type"
                     THEN set_enum(row, key, val, REC_TYPE_VALUES)
                     ELSE IF key = "status"
                     THEN set_enum(row, key, val, STATUS_VALUES)
                     ELSE IF key = "confidence_score"
                     THEN set_confidence_score(row, val)
                     ELSE [outcome |-> "DataValidationError", row |-> row]
         IN  IF step.outcome # "ok" THEN step ELSE update_loop(step.row, data, k + 1)

\* _commit_or_raise of the object of the id: the commit, or the rollback of
\* a commit that fails; the log line of the failure reads self.id, which
\* loads the expired object again
commit_or_raise(db, id, processed, ts, commitOk) ==
    IF commitOk
    THEN Outcome(commit(db), "ok", <<id>>, processed, "ok", ts)
    ELSE Outcome([rollback(db) EXCEPT !.loaded = {id}],
                 "DataValidationError", <<id>>, processed, "failed", ts)

\* Recommendation.update(data) of the object of the id, which find returned
\* (it is loaded): the handlers change the object as they go, the timestamp
\* is read after the last of them
update(db, id, data, commitOk) ==
    LET self == db.session[id]
    IN  IF self.id = 0 THEN Outcome(db, "DataValidationError", <<>>, 0, "none", 0)
        ELSE IF Len(data) = 0 THEN Outcome(db, "ok", <<>>, 0, "none", 0)
        ELSE LET done == update_loop(self, data, 1)
                 ts == db.clock
             IN  IF done.outcome # "ok"
                 THEN Outcome([db EXCEPT !.session[id] = done.row],
                              done.outcome, <<>>, 0, "none", 0)
                 ELSE commit_or_raise(
                          [db EXCEPT
                               !.session[id] = [done.row EXCEPT !.updated_date = ts],
                               !.clock = ts + 1],
                          id, Len(data), ts, commitOk)

\* Recommendation.create() of a new object: it takes the timestamp as its
\* updated_date and is added to the session; the commit sends the UPDATEs of
\* the changed rows, then the INSERT, which takes the next value of the
\* sequence of the table as the id and reads the clock for created_date. The
\* rollback of a commit that fails leaves the object out of the session.
create(db, row, id, commitOk) ==
    LET ts == db.clock
        self == [row EXCEPT !.id = id, !.updated_date = ts]
        read == [db EXCEPT !.clock = ts + 1]
        sent == flush(read)
        added == [i \in DOMAIN sent.session \cup {id} |->
                     IF i = id THEN self ELSE sent.session[i]]
    IN  IF commitOk
        THEN Outcome([sent EXCEPT !.session = added, !.flushed = added,
                                  !.store = added, !.loaded = {}, !.clock = @ + 1],
                     "ok", <<id>>, 0, "ok", ts)
        ELSE Outcome(rollback(read), "DataValidationError", <<>>, 0, "failed", ts)

\* Recommendation.delete() of the object of the id, which find returned: the
\* commit sends the UPDATEs of the other changed rows and the DELETE. The
\* rollback of a commit that fails brings the object back, expired, and the
\* log line of the failure, which formats self, loads it again.
delete(db, id, commitOk) ==
    LET kept == DOMAIN db.session \ {id}
        sent == flush([db EXCEPT !.session = [i \in kept |-> db.session[i]],
                                 !.flushed = [i \in kept |-> db.flushed[i]]])
    IN  IF commitOk
        THEN Outcome([sent EXCEPT !.store = sent.session, !.loaded = {}],
                     "ok", <<id>>, 0, "ok", 0)
        ELSE Outcome([rollback(db) EXCEPT !.loaded = {id}],
                     "DataValidationError", <<>>, 0, "failed", 0)

\* Recommendation.all(): cls.query.all() flushes the session (autoflush) and
\* SELECTs every row, in the given order; every object is loaded
all(db, order) ==
    Outcome([flush(db) EXCEPT !.loaded = @ \cup Range(order)],
            "ok", order, 0, "none", 0)

\* ------------------------------------------------------------------
\* The endpoints of the records (routes.py)
\* ------------------------------------------------------------------
\* The requests of the model are sent as application/json and their bodies
\* are JSON objects. A request the endpoint refuses itself ends as "abort".
\* the outcome of a request with its status code
Reply(out, status_code) ==
    [f \in DOMAIN out \cup {"status"} |-> IF f = "status" THEN status_code ELSE out[f]]

\* RecommendationResource.put(): PUT /recommendations/<id>. A record that
\* is not found is a 404 and an empty payload a 400; serialize() after the
\* update reads the object, which the commit expired, and loads it again.
RecommendationResource_put(db, id, data, commitOk) ==
    LET found == find(db, id)
    IN  IF found.row = None
        THEN Reply(Outcome(found.db, "abort", <<>>, 0, "none", 0), 404)
        ELSE IF Len(data) = 0
        THEN Reply(Outcome(found.db, "abort", <<>>, 0, "none", 0), 400)
        ELSE LET out == update(found.db, id, data, commitOk)
             IN  IF out.outcome = "ok"
                 THEN Reply([out EXCEPT !.loaded = @ \cup {id}], 200)
                 ELSE Reply(out, http_status(out.outcome))

\* RecommendationResource.delete(): DELETE /recommendations/<id>. The
\* record is deleted when it is found, and the answer is 204 either way; no
\* handler catches the DataValidationError of a commit that fails.
RecommendationResource_delete(db, id, commitOk) ==
    LET found == find(db, id)
    IN  IF found.row = None
        THEN Reply(Outcome(found.db, "ok", <<>>, 0, "none", 0), 204)
        ELSE LET out == delete(found.db, id, commitOk)
             IN  Reply(out, IF out.outcome = "ok" THEN 204 ELSE 500)

\* RecommendationCollection.post(): POST /recommendations of a payload that
\* deserialize accepts. The log line after create() reads recommendation.id,
\* which loads the object the commit expired.
RecommendationCollection_post(db, row, id, commitOk) ==
    LET out == create(db, row, id, commitOk)
    IN  IF out.outcome = "ok"
        THEN Reply([out EXCEPT !.loaded = @ \cup {id}], 201)
        ELSE Reply(out, 500)

\* RecommendationCollection.get(): GET /recommendations without a filter
RecommendationCollection_get(db, order) == Reply(all(db, order), 200)

\* ------------------------------------------------------------------
\* DiscountResource.put (routes.py)
\* ------------------------------------------------------------------
\* A request is its discount query parameter (None when absent), its
\* Content-Type header ("" when absent) and its body: no bytes, bytes that
\* are no JSON, or the JSON value the bytes spell.
NoData == [t |-> "nodata"]
NotJson == [t |-> "notjson"]

get_json_forced(req) ==
    IF req.data.t \notin {"nodata", "notjson"} THEN req.data ELSE None
\* request.get_json(silent=True): the JSON value of a body sent as
\* application/json, None otherwise
get_json(req) ==
    IF req.content_type = "application/json" /\ req.data.t \notin {"nodata", "notjson"}
    THEN req.data ELSE None

\* what a request leaves behind: the outcome of the engine call (or of the
\* abort before it) with the mode taken, the result of the validation of the
\* query parameter, the argument passed to the engine and the status code
Response(out, mode, validated, arg, status_code) ==
    [session |-> out.session, store |-> out.store, flushed |-> out.flushed,
     loaded |-> out.loaded, clock |-> out.clock, outcome |-> out.outcome,
     ids |-> out.ids, result |-> out.result, count |-> out.count,
     processed |-> out.processed, commit |-> out.commit, ts |-> out.ts,
     mode |-> mode, validated |-> validated, arg |-> arg, status |-> status_code]

put_prefers_body(db, req, order, commitOk) ==
    LET request_body == get_json(req)
        discount_query_param == IF request_body = None THEN req.discount ELSE None
        aborted(mode, validated, status_code) ==
            Response(Outcome(db, "abort", <<>>, 0, "none", 0),
                     mode, validated, None, status_code)
    IN  IF /\ discount_query_param = None
           /\ req.content_type # "" /\ req.data # NoData
           /\ req.content_type # "application/json"
        THEN aborted("none", "none", 415)
        ELSE IF discount_query_param = None /\ request_body = None
        THEN aborted("none", "none", 400)
        ELSE IF discount_query_param # None
        THEN LET valid == validate_discount_percent(discount_query_param.v)
             IN  IF valid.outcome = "abort"
                 THEN aborted("flat", "abort", 400)
                 ELSE IF valid.outcome # "ok"
                 THEN Response(Outcome(db, valid.outcome, <<>>, 0, "none", 0),
                               "flat", valid.outcome, None, http_status(valid.outcome))
                 ELSE LET discount_percentage == hundredths(valid.pct)
                          out == apply_flat_discount_to_accessories(
                                     db, discount_percentage, order, commitOk)
                      IN  Response(out, "flat", "ok", Num(discount_percentage),
                                   http_status(out.outcome))
        ELSE IF request_body.t # "dict" \/ Len(request_body.v) = 0
        THEN aborted("custom", "none", 400)
        ELSE LET out == apply_custom_discounts(db, request_body, commitOk)
             IN  Response(out, "custom", "none", request_body, http_status(out.outcome))
\* DiscountResource.put(): PUT /recommendations/apply_discount
put(db, req, order, commitOk) ==
    LET discount_query_param == req.discount
        request_body == IF discount_query_param = None THEN get_json(req) ELSE None
        aborted(mode, validated, status_code) ==
            Response(Outcome(db, "abort", <<>>, 0, "none", 0),
                     mode, validated, None, status_code)
    IN  IF /\ discount_query_param = None
           /\ req.content_type # "" /\ req.data # NoData
           /\ req.content_type # "application/json"
        THEN aborted("none", "none", 415)
        ELSE IF discount_query_param = None /\ request_body = None
        THEN aborted("none", "none", 400)
        ELSE IF discount_query_param # None
        THEN LET valid == validate_discount_percent(discount_query_param.v)
             IN  IF valid.outcome = "abort"
                 THEN aborted("flat", "abort", 400)
                 ELSE IF valid.outcome # "ok"
                 THEN Response(Outcome(db, valid.outcome, <<>>, 0, "none", 0),
                               "flat", valid.outcome, None, http_status(valid.outcome))
                 ELSE LET discount_percentage == hundredths(valid.pct)
                          out == apply_flat_discount_to_accessories(
                                     db, discount_percentage, order, commitOk)
                      IN  Response(out, "flat", "ok", Num(discount_percentage),
                                   http_status(out.outcome))
        ELSE IF request_body.t # "dict" \/ Len(request_body.v) = 0
        THEN aborted("custom", "none", 400)
        ELSE LET out == apply_custom_discounts(db, request_body, commitOk)
             IN  Response(out, "custom", "none", request_body, http_status(out.outcome))

\* ------------------------------------------------------------------
\* Inputs
\* ------------------------------------------------------------------
\* percentages passed to the flat discount, in hundredths of a percent
FlatPercents == {0, 1000, 5000}

\* keys of a mapping: ids of rows, an id of no row, and a key that is no numeral
Keys == {<<"1">>, <<"2">>, <<"7">>, <<"x">>}

\* discount configurations of a mapping entry
Configs ==
    {Dict([base_product_price |-> Num(1000)]),
     Dict([base_product_price |-> Num(1000), recommended_product_price |-> Num(2000)])}

\* the entries of a mapping: the first row with each configuration, every
\* other key with the first one
Entries ==
    {e \in [key : Keys, config : Configs] :
        e.key = <<"1">> \/ e.config = Dict([base_product_price |-> Num(1000)])}

\* the items of a non-empty dict: its keys are distinct
ItemSeqs ==
    {items \in UNION {[1..n -> Entries] : n \in 1..MaxEntries} :
        \A i, j \in DOMAIN items : i # j => items[i].key # items[j].key}

Mappings == {Dict(<<>>), List(<<>>)} \cup {Dict(items) : items \in ItemSeqs}

\* rows the store can hold before the first call
InitTypes == <<"accessory", "cross-sell">>
InitPrices == <<<<NULL, NULL>>, <<NULL, 5000>>, <<1, NULL>>, <<10000, 5000>>>>
InitRow(id, ty, p) ==
    [id |-> id, base_product_id |-> 10 * id, recommended_product_id |-> 10 * id + 1,
     recommendation_type |-> InitTypes[ty], status |-> "active", confidence_score |-> 50,
     base_product_price |-> InitPrices[p][1],
     recommended_product_price |-> InitPrices[p][2], updated_date |-> 0]

\* the stores before the first call: every pair of rows, up to exchanging
\* the two ids (the mappings name the ids in both orders)
InitStores ==
    {<<InitRow(1, t1, p1), InitRow(2, t2, p2)>> :
        <<t1, p1, t2, p2>> \in
            {x \in (DOMAIN InitTypes) \X (DOMAIN InitPrices)
                       \X (DOMAIN InitTypes) \X (DOMAIN InitPrices) :
                \/ x[1] < x[3]
                \/ x[1] = x[3] /\ x[2] <= x[4]}}

\* configurations of a mapping entry that pass or fail the checks of an
\* entry: percentages in and out of range, percentages sent as strings, an
\* empty object, a value that is no object, an object without a price field
MalformedConfigs ==
    {Dict([base_product_price |-> Num(1000)]),
     Dict([base_product_price |-> Str(<<"1", "0">>)]),
     Dict([recommended_product_price |-> Str(<<"a", "b", "c">>)]),
     Dict([base_product_price |-> Num(0)]),
     Dict([base_product_price |-> Num(1000), recommended_product_price |-> Num(10000)]),
     Dict(<<>>),
     List(<<>>),
     Dict([note |-> Num(1000)])}

\* the entries of these mappings: every configuration under the key of a
\* row and under a key of no row, and the first one under a key int() takes
\* with its sign and under a key it refuses for its underscore
MalformedEntries ==
    [key : {<<"1">>, <<"7">>}, config : MalformedConfigs]
        \cup [key : {<<"+", "2">>, <<"2", "_">>},
              config : {Dict([base_product_price |-> Num(1000)])}]

\* a key of one digit more than int() converts
LongKey == [i \in 1..(int_max_str_digits + 1) |-> "1"]

\* mappings with that key: alone, and after an entry that is applied
LongKeyMappings ==
    {Dict(<<[key |-> LongKey, config |-> Dict([base_product_price |-> Num(1000)])]>>),
     Dict(<<[key |-> <<"1">>, config |-> Dict([base_product_price |-> Num(1000)])],
            [key |-> LongKey, config |-> Dict([base_product_price |-> Num(1000)])]>>)}

\* arguments of apply_custom_discounts of every shape
MalformedMappings ==
    {Dict(<<>>), List(<<>>), None} \cup LongKeyMappings
        \cup {Dict(items) :
                 items \in {s \in UNION {[1..n -> MalformedEntries] : n \in 1..MaxEntries} :
                               \A i, j \in DOMAIN s : i # j => s[i].key # s[j].key}}

\* values of the discount query parameter
DiscountParams ==
    {<<"1", "0">>, <<"5", "0">>, <<"0", ".", "0", "1">>, <<"9", "9", ".", "9", "9">>,
     <<"0">>, <<"1", "0", "0">>, <<"1", "5", "0">>, <<"-", "5">>,
     <<"a", "b", "c">>, <<"N", "a", "N">>}

\* Content-Type headers of a request
ContentTypes == {"", "application/json", "text/plain"}

\* bodies of a request
Bodies ==
    {NoData, NotJson, List(<<>>), Dict(<<>>),
     Dict(<<[key |-> <<"1">>, config |-> Dict([base_product_price |-> Num(2000)])]>>),
     Dict(<<[key |-> <<"2">>, config |-> Dict([base_product_price |-> Num(2000)])]>>),
     Dict(<<[key |-> <<"1">>,
             config |-> Dict([base_product_price |-> Str(<<"1", "0">>)])]>>)}

\* what a request that carries the discount parameter sends besides: nothing,
\* a JSON mapping, or a body of another media type
SentWithParam ==
    {[content_type |-> "", data |-> NoData],
     [content_type |-> "application/json",
      data |-> Dict(<<[key |-> <<"2">>,
                       config |-> Dict([base_product_price |-> Num(2000)])]>>)],
     [content_type |-> "text/plain", data |-> NotJson]}

Requests ==
    [discount : {None}, content_type : ContentTypes, data : Bodies]
        \cup {[discount |-> Str(s), content_type |-> sent.content_type, data |-> sent.data] :
                 s \in DiscountParams, sent \in SentWithParam}

\* payloads of the calls of update among the discount calls: a status, and
\* a status followed by a confidence score out of range
ShortPayloads ==
    {<<[key |-> "status", value |-> Str(chars("inactive"))]>>,
     <<[key |-> "status", value |-> Str(chars("inactive"))],
       [key |-> "confidence_score", value |-> Num(150)]>>}

\* the objects created among the discount calls, as deserialize leaves them
NewRows == {InitRow(0, 1, 4)}

\* an id of no row
NoRowId == 7

\* the requests in flight at the same time, each with its own db.session
Workers == {1, 2}

\* what the concurrent requests ask for: a flat discount, or a custom
\* discount of one entry or two
ConcurrentCalls ==
    {[op |-> "flat", arg |-> Num(1000)], [op |-> "flat", arg |-> Num(5000)],
     [op |-> "custom",
      arg |-> Dict(<<[key |-> <<"1">>,
                      config |-> Dict([base_product_price |-> Num(2000)])]>>)],
     [op |-> "custom",
      arg |-> Dict(<<[key |-> <<"2">>,
                      config |-> Dict([base_product_price |-> Num(2000)])],
                     [key |-> <<"1">>,
                      config |-> Dict([base_product_price |-> Num(2000)])]>>)]}

\* a request that has not started: the rows its call has loaded, when it
\* loaded each, the entry of the mapping it is at, when it read the clock
Idle ==
    [pc |-> "idle", op |-> "none", arg |-> None, loaded |-> <<>>, load_at |-> <<>>,
     k |-> 1, read_at |-> 0, outcome |-> "ok", result |-> <<>>, commit |-> "none",
     commit_at |-> 0]

NoCall ==
    [op |-> "none", arg |-> None, outcome |-> "ok", ids |-> <<>>, result |-> <<>>,
     count |-> 0, processed |-> 0, commit |-> "none", ts |-> 0]

\* ------------------------------------------------------------------
\* Specification
\* ------------------------------------------------------------------
Init ==
    /\ store \in InitStores
    /\ session = store
    /\ flushed = store
    /\ loaded = {}
    /\ sequence = 3
    /\ clock = 1
    /\ last = [call |-> NoCall, pre |-> store, preStore |-> store]

\* what the call about to be made runs on
Now == Db(store, session, flushed, loaded, clock)

\* the caller is ready for a call: it has the result of the call before, or
\* it keeps the results of its calls
Ready == last.call.op = "none" \/ "before" \in DOMAIN last

\* the call that has just ended, with the rows of before it
Record(op, arg, out) ==
    LET ended == [op |-> op, arg |-> arg, outcome |-> out.outcome, ids |-> out.ids,
                  result |-> out.result, count |-> out.count,
                  processed |-> out.processed, commit |-> out.commit, ts |-> out.ts]
    IN  IF "before" \in DOMAIN last
        THEN [call |-> ended, pre |-> session, preStore |-> store,
              before |-> [call |-> last.call, pre |-> last.pre]]
        ELSE [call |-> ended, pre |-> session, preStore |-> store]

\* the call ends: the database and the session are as it leaves them, and
\* time passes before the next call
Apply(out) ==
    /\ session' = out.session
    /\ store' = out.store
    /\ flushed' = out.flushed
    /\ loaded' = out.loaded
    /\ clock' = IF out.clock > clock THEN out.clock ELSE clock + 1

\* the call ends with the outcome out and is remembered; its commit can fail
\* only when the call reaches it
Ends(op, arg, out, commitOk) ==
    /\ out.commit = "none" => commitOk
    /\ Apply(out)
    /\ last' = Record(op, arg, out)

\* a call of apply_flat_discount_to_accessories with a percentage of P
FlatCall(P) ==
    /\ Ready
    /\ clock <= MaxClock
    /\ \E pct \in P, commitOk \in BOOLEAN :
       \E order \in Orders(find_by_recommendation_type(session, chars("accessory"))) :
          Ends("flat", Num(pct),
               apply_flat_discount_to_accessories(Now, pct, order, commitOk), commitOk)
    /\ UNCHANGED sequence

\* a call of apply_custom_discounts with a mapping of M
CustomCall(M) ==
    /\ Ready
    /\ clock <= MaxClock
    /\ \E mappings \in M, commitOk \in BOOLEAN :
          Ends("custom", mappings, apply_custom_discounts(Now, mappings, commitOk),
               commitOk)
    /\ UNCHANGED sequence

ApplyFlatDiscount == FlatCall(FlatPercents)

ApplyCustomDiscounts == CustomCall(Mappings)

\* what a lookup leaves behind: the object found, if any
looked_up(found, id) ==
    Outcome(found.db, "ok", IF found.row = None THEN <<>> ELSE <<id>>, 0, "none", 0)

\* Recommendation.find(id): the lookup of GET /recommendations/<id>
Find ==
    /\ Ready
    /\ clock <= MaxClock
    /\ \E id \in DOMAIN session \cup {NoRowId} :
          Ends("find", Num(id), looked_up(find(Now, id), id), TRUE)
    /\ UNCHANGED sequence

\* the request is answered: it is remembered as the call the endpoint made,
\* or as refused when the endpoint made none
Answered(op, arg, out, commitOk) ==
    Ends(IF out.outcome = "abort" THEN "refused" ELSE op, arg, out, commitOk)

\* PUT /recommendations/<id> with a payload of P
UpdateCall(P) ==
    /\ Ready
    /\ clock <= MaxClock
    /\ \E id \in DOMAIN session \cup {NoRowId}, data \in P, commitOk \in BOOLEAN :
          Answered("update", data, RecommendationResource_put(Now, id, data, commitOk),
                   commitOk)
    /\ UNCHANGED sequence

UpdateRecommendation == UpdateCall(ShortPayloads)

\* POST /recommendations of a new record: a commit that fails takes no
\* value of the sequence
Create ==
    /\ Ready
    /\ clock <= MaxClock
    /\ \E row \in NewRows, commitOk \in BOOLEAN :
          /\ Ends("create", Num(sequence),
                  RecommendationCollection_post(Now, row, sequence, commitOk), TRUE)
          /\ sequence' = IF commitOk THEN sequence + 1 ELSE sequence

\* DELETE /recommendations/<id>
Delete ==
    /\ Ready
    /\ clock <= MaxClock
    /\ \E id \in DOMAIN session \cup {NoRowId}, commitOk \in BOOLEAN :
          Ends("delete", Num(id), RecommendationResource_delete(Now, id, commitOk),
               commitOk)
    /\ UNCHANGED sequence

\* GET /recommendations: Recommendation.all()
All ==
    /\ Ready
    /\ clock <= MaxClock
    /\ \E order \in Orders(DOMAIN session) :
          Ends("all", None, RecommendationCollection_get(Now, order), TRUE)
    /\ UNCHANGED sequence

\* the caller has the result of the call (the list, or the exception) and
\* goes on with the same session, as code calling the model does
Return ==
    /\ last.call.op # "none"
    /\ last' = [call |-> NoCall, pre |-> session, preStore |-> store]
    /\ UNCHANGED <<store, session, flushed, loaded, sequence, clock>>

\* the caller has the result of the call and the session is removed
\* (db.session.remove(), the teardown after a request or a test): its pending
\* changes are discarded
SessionRemove ==
    /\ last.call.op # "none"
    /\ session' = store
    /\ flushed' = store
    /\ loaded' = {}
    /\ last' = [call |-> NoCall, pre |-> store, preStore |-> store]
    /\ UNCHANGED <<store, sequence, clock>>

Next ==
    \/ ApplyFlatDiscount \/ ApplyCustomDiscounts
    \/ Find \/ All \/ UpdateRecommendation \/ Create \/ Delete
    \/ Return \/ SessionRemove

Spec == Init /\ [][Next]_vars

\* ------------------------------------------------------------------
\* Specification of the HTTP endpoint
\* ------------------------------------------------------------------
\* the request is answered: the call the endpoint made is remembered with
\* the request
Answer(req, out, commitOk) ==
    /\ out.commit = "none" => commitOk
    /\ Apply(out)
    /\ last' = [call |-> [op |-> IF out.arg = None THEN "put" ELSE out.mode,
                          arg |-> out.arg, outcome |-> out.outcome,
                          ids |-> out.ids, result |-> out.result,
                          count |-> out.count, processed |-> out.processed,
                          commit |-> out.commit, ts |-> out.ts,
                          mode |-> out.mode, validated |-> out.validated,
                          status |-> out.status, request |-> req],
                pre |-> session, preStore |-> store]

\* a PUT /recommendations/apply_discount request
Put ==
    /\ Ready
    /\ clock <= MaxClock
    /\ \E req \in Requests, commitOk \in BOOLEAN :
       \E order \in Orders(find_by_recommendation_type(session, chars("accessory"))) :
          Answer(req, put(Now, req, order, commitOk), commitOk)
    /\ UNCHANGED sequence

HttpNext ==
    \/ Put
    \/ Find \/ All \/ UpdateRecommendation \/ Create \/ Delete
    \/ Return \/ SessionRemove

HttpSpec == Init /\ [][HttpNext]_vars

\* ------------------------------------------------------------------
\* Specification of calls with arguments of every shape
\* ------------------------------------------------------------------
ApplyMalformedDiscounts == CustomCall(MalformedMappings)

InputNext ==
    \/ ApplyMalformedDiscounts
    \/ Find \/ All \/ UpdateRecommendation \/ Create \/ Delete
    \/ Return \/ SessionRemove

InputSpec == Init /\ [][InputNext]_vars

\* ------------------------------------------------------------------
\* Specification of concurrent requests
\* ------------------------------------------------------------------
\* Each request runs its discount call on a session of its own; the store
\* is shared and keeps the value of the last UPDATE of a column (READ
\* COMMITTED: no version column, no SELECT ... FOR UPDATE). In this
\* specification session, flushed, loaded and last are functions of the
\* worker, and every access of a call to the store or to the clock is a step.
ConcInit ==
    /\ store \in InitStores
    /\ session = [w \in Workers |-> store]
    /\ flushed = [w \in Workers |-> store]
    /\ loaded = [w \in Workers |-> {}]
    /\ sequence = 3
    /\ clock = 1
    /\ last = [w \in Workers |-> Idle]

rows_reread_at_commit(rows, st) == st
\* the rows a call computes with: the objects its query (flat) or its finds
\* (custom) loaded into the session, whatever has been committed since
rows_computed_from(rows, st) == rows

\* the UPDATE statements of db.session.commit(): every column of a row whose
\* value the call changed is written, the other columns keep what the store
\* holds; updated_date gets its onupdate value, the time of the flush, in the
\* UPDATE of a row that does not set it
update_statements(changed, rows, st, now) ==
    [i \in DOMAIN st |->
        [f \in DOMAIN st[i] |->
            IF changed[i][f] # rows[i][f] THEN changed[i][f]
            ELSE IF f = "updated_date" /\ changed[i] # rows[i] THEN now
            ELSE st[i][f]]]

\* the rows of ids are loaded into the session of w as the store holds them now
Load(w, ids) ==
    /\ session' = [session EXCEPT ![w] =
                      [i \in DOMAIN store |-> IF i \in ids THEN store[i] ELSE @[i]]]
    /\ flushed' = [flushed EXCEPT ![w] =
                      [i \in DOMAIN store |-> IF i \in ids THEN store[i] ELSE @[i]]]
    /\ loaded' = [loaded EXCEPT ![w] = @ \cup ids]

\* a flat discount starts: its query loads the accessories (models.py, 325),
\* and the call ends with ResourceNotFoundError when there is none (326-327)
Query(w) ==
    /\ last[w].pc = "idle"
    /\ \E c \in {d \in ConcurrentCalls : d.op = "flat"} :
          LET ids == find_by_recommendation_type(store, chars("accessory"))
          IN  /\ Load(w, ids)
              /\ last' = [last EXCEPT ![w] =
                             [Idle EXCEPT !.pc = IF ids = {} THEN "done" ELSE "queried",
                                          !.op = c.op, !.arg = c.arg,
                                          !.outcome = IF ids = {}
                                                      THEN "ResourceNotFoundError"
                                                      ELSE "ok",
                                          !.loaded = [i \in ids |-> store[i]],
                                          !.load_at = [i \in ids |-> clock]]]
    /\ clock' = clock + 1
    /\ UNCHANGED <<store, sequence>>

\* the call reads the clock (current_timestamp): a flat discount after its
\* query (330), a custom discount as it starts (396)
ReadClock(w) ==
    /\ \/ /\ last[w].pc = "queried"
          /\ last' = [last EXCEPT ![w] = [@ EXCEPT !.pc = "stamped", !.read_at = clock]]
       \/ /\ last[w].pc = "idle"
          /\ \E c \in {d \in ConcurrentCalls : d.op = "custom"} :
                last' = [last EXCEPT ![w] =
                            [Idle EXCEPT !.pc = "stamped", !.op = c.op, !.arg = c.arg,
                                         !.read_at = clock]]
    /\ clock' = clock + 1
    /\ UNCHANGED <<store, session, flushed, loaded, sequence>>

\* a custom discount looks up the record of its next entry (447): an object
\* the session has not loaded is loaded as the store holds it now
Lookup(w) ==
    /\ last[w].pc = "stamped" /\ last[w].op = "custom"
    /\ last[w].k <= Len(last[w].arg.v)
    /\ LET id == int(last[w].arg.v[last[w].k].key)
           ids == IF id \in DOMAIN store /\ id \notin loaded[w] THEN {id} ELSE {}
       IN  /\ Load(w, ids)
           /\ last' = [last EXCEPT ![w] =
                          [@ EXCEPT !.k = @ + 1,
                                    !.loaded = [i \in DOMAIN @ \cup ids |->
                                                   IF i \in ids THEN store[i] ELSE @[i]],
                                    !.load_at = [i \in DOMAIN @ \cup ids |->
                                                    IF i \in ids THEN clock ELSE @[i]]]]
    /\ clock' = clock + 1
    /\ UNCHANGED <<store, sequence>>

\* the end of the call of w, which computed out from rows. A call that
\* raised before its commit leaves its session as it is. The UPDATEs of a
\* commit reach the store, a commit that fails is rolled back, and either way
\* the objects of the session expire.
Commit(w, rows, out, commitOk) ==
    LET written == IF out.commit = "ok"
                   THEN update_statements(out.session, rows, store, clock)
                   ELSE store
    IN  /\ out.commit = "none" => commitOk
        /\ store' = written
        /\ session' = [session EXCEPT ![w] =
                          IF out.commit = "none" THEN out.session ELSE written]
        /\ flushed' = [flushed EXCEPT ![w] =
                          IF out.commit = "none" THEN out.flushed ELSE written]
        /\ loaded' = [loaded EXCEPT ![w] =
                         IF out.commit = "none" THEN out.loaded ELSE {}]
        /\ last' = [last EXCEPT ![w] =
                       [@ EXCEPT !.pc = "done", !.outcome = out.outcome,
                                 !.result = out.result, !.commit = out.commit,
                                 !.commit_at = IF out.commit = "none" THEN 0
                                               ELSE clock]]

\* the computation of the call of w on the rows of its session, at the time
\* it read
Compute(w, rows, order, commitOk) ==
    IF last[w].op = "flat"
    THEN apply_flat_discount_to_accessories(
             Db(store, rows, rows, loaded[w], last[w].read_at),
             last[w].arg.v, order, commitOk)
    ELSE apply_custom_discounts(
             Db(store, rows, rows, loaded[w], last[w].read_at),
             last[w].arg, commitOk)

\* the call of a request goes over the rows it loaded, stamps the ones it
\* updates with the time it read, and commits
Finish(w) ==
    /\ last[w].pc = "stamped"
    /\ last[w].op = "custom" => last[w].k > Len(last[w].arg.v)
    /\ \E commitOk \in BOOLEAN :
       \E order \in IF last[w].op = "flat" THEN Orders(DOMAIN last[w].loaded)
                    ELSE {<<>>} :
          Commit(w, rows_computed_from(session[w], store),
                 Compute(w, rows_computed_from(session[w], store), order, commitOk),
                 commitOk)
    /\ clock' = clock + 1
    /\ UNCHANGED sequence

ConcNext == \E w \in Workers : Query(w) \/ ReadClock(w) \/ Lookup(w) \/ Finish(w)

ConcSpec == ConcInit /\ [][ConcNext]_vars

\* ------------------------------------------------------------------
\* Properties
\* ------------------------------------------------------------------
call == last.call
pre == last.pre
preStore == last.preStore

\* the rows there were before the last call
Rows == DOMAIN pre

PriceFields == {"base_product_price", "recommended_product_price"}

IsDiscountCall == call.op \in {"flat", "custom"}

\* price p (cents) less d hundredths of a percent, rounded half-up to a cent
ApplyPercentDiscount(p, d) == (p * (10000 - d) + 5000) \div 10000

\* the items of the mapping of the last custom call (none when it was no dict)
Items == IF call.op = "custom" /\ call.arg.t = "dict" THEN call.arg.v ELSE <<>>

\* the entries that pass every input check
WellFormed(k) == entry_checks(Items[k].key, Items[k].config) = "ok"

\* entry k names the existing record i
Names(k, i) == is_numeric_key(Items[k].key) /\ int(Items[k].key) = i

\* entry k supplies a percentage for price field f
Supplies(k, f) == dict_get(Items[k].config.v, f) # None

\* the mapping has exactly one key that is no numeral, and is valid otherwise
OneBadKey ==
    /\ call.op = "custom"
    /\ Cardinality({k \in DOMAIN Items : ~is_numeric_key(Items[k].key)}) = 1
    /\ \A k \in DOMAIN Items :
          is_numeric_key(Items[k].key) \/
          entry_checks(<<"1">>, Items[k].config) = "ok"

\* C1 (as claimed): a single non-numeric key in an otherwise valid mapping fails
\* the call with DataValidationError and no record is changed by it, the
\* records of the entries before the bad key included.
C1_BadKeyMutatesNothing ==
    OneBadKey =>
        /\ call.outcome = "DataValidationError"
        /\ \A i \in Rows :
              /\ session[i].base_product_price = pre[i].base_product_price
              /\ session[i].recommended_product_price = pre[i].recommended_product_price
              /\ session[i].updated_date = pre[i].updated_date

\* C2: when the commit of a flat or custom discount fails, the call fails with
\* DataValidationError and the transaction is rolled back: every record, as the
\* session reads it and as the store holds it, has the committed values of
\* before the call, however many records the call had recomputed.
C2_CommitFailureRollsBack ==
    (IsDiscountCall /\ call.commit = "failed") =>
        /\ call.outcome = "DataValidationError"
        /\ store = preStore
        /\ \A i \in Rows : session[i] = preStore[i]

C2_Witness ==
    /\ Rows = Ids
    /\ IsDiscountCall /\ call.commit = "failed"
    /\ Len(call.ids) >= 2
    /\ \A i \in Rows : pre[i].base_product_price = 10000

\* C3: a price that was null before a discount call, successful or failed, is
\* null after it, in the session and in the store.
C3_NullPreserved ==
    IsDiscountCall =>
        \A i \in Rows : \A f \in PriceFields :
            /\ pre[i][f] = NULL => session[i][f] = NULL
            /\ preStore[i][f] = NULL => store[i][f] = NULL

C3_Witness ==
    /\ Rows = Ids
    /\ IsDiscountCall /\ call.outcome = "ok"
    /\ \E i \in Rows :
          /\ i \in Range(call.result)
          /\ pre[i].base_product_price = NULL
          /\ session[i].base_product_price = NULL
          /\ session[i].recommended_product_price # pre[i].recommended_product_price

\* C4 (as claimed): in every discount call the updated_date of a record changes
\* if and only if one of its two prices changed value, so that a record whose
\* prices all keep their value keeps its updated_date.
C4_StampedIffPriceChanged ==
    IsDiscountCall =>
        \A i \in Rows :
            (session[i].updated_date # pre[i].updated_date)
                <=> (\E f \in PriceFields : session[i][f] # pre[i][f])

\* C5: after a successful flat discount of d every accessory has each price
\* that was not null replaced by ApplyPercentDiscount(old, d), the same d for
\* both prices, in the session and in the store.
C5_FlatDiscountsBothPrices ==
    (call.op = "flat" /\ call.outcome = "ok") =>
        \A i \in Rows : pre[i].recommendation_type = "accessory" =>
            \A f \in PriceFields :
                /\ session[i][f] = IF pre[i][f] = NULL THEN NULL
                                   ELSE ApplyPercentDiscount(pre[i][f], call.arg.v)
                /\ store[i][f] = session[i][f]

C5_Witness ==
    /\ Rows = Ids
    /\ call.op = "flat" /\ call.outcome = "ok" /\ call.arg.v = 1000
    /\ \A i \in Rows :
          /\ pre[i].recommendation_type = "accessory"
          /\ pre[i].base_product_price = 10000
          /\ pre[i].recommended_product_price = 5000
          /\ store[i].base_product_price = 9000
          /\ store[i].recommended_product_price = 4500

\* the price field f of record i after the entries k.. of the mapping, each
\* entry that names i and supplies a percentage for f discounting the price
\* the entries before it left (a null price stays null)
RECURSIVE PriceAfterEntries(_, _, _, _)
PriceAfterEntries(k, i, f, p) ==
    IF k > Len(Items) THEN p
    ELSE PriceAfterEntries(
             k + 1, i, f,
             IF Names(k, i) /\ Supplies(k, f) /\ p # NULL
             THEN ApplyPercentDiscount(p, Items[k].config.v[f].v)
             ELSE p)

\* C6: after a successful custom discount, for every entry naming an existing
\* record, each price whose percentage the entry supplies and that is not null
\* becomes ApplyPercentDiscount(old, that field's own percentage), and a price
\* whose percentage is not supplied keeps its value, in the session and in
\* the store.
C6_CustomDiscountsSuppliedFields ==
    (call.op = "custom" /\ call.outcome = "ok") =>
        \A i \in Rows : \A f \in PriceFields :
            /\ session[i][f] = PriceAfterEntries(1, i, f, pre[i][f])
            /\ store[i][f] = session[i][f]

C6_Witness ==
    /\ Rows = Ids
    /\ call.op = "custom" /\ call.outcome = "ok"
    /\ Len(Items) = 2
    /\ DOMAIN Items[1].config.v = PriceFields
    /\ DOMAIN Items[2].config.v = {"base_product_price"}
    /\ \E i, j \in Rows :
          /\ Names(1, i) /\ Names(2, j)
          /\ pre[i].base_product_price = 10000 /\ pre[i].recommended_product_price = 5000
          /\ store[i].base_product_price = 9000 /\ store[i].recommended_product_price = 4000
          /\ pre[j].base_product_price = 10000 /\ pre[j].recommended_product_price = 5000
          /\ store[j].base_product_price = 9000 /\ store[j].recommended_product_price = 5000

\* C7: a successful flat discount returns (updated_ids, count): updated_ids
\* lists, once each, exactly the accessories that had a price that was not
\* null, count is its length, and count is at least 1.
C7_FlatReturnsUpdatedAccessories ==
    (call.op = "flat" /\ call.outcome = "ok") =>
        /\ Range(call.result) =
               {i \in Rows : /\ pre[i].recommendation_type = "accessory"
                            /\ \E f \in PriceFields : pre[i][f] # NULL}
        /\ Cardinality(Range(call.result)) = Len(call.result)
        /\ call.count = Len(call.result)
        /\ call.count >= 1

C7_Witness ==
    /\ Rows = Ids
    /\ call.op = "flat" /\ call.outcome = "ok"
    /\ \A i \in Rows : pre[i].recommendation_type = "accessory"
    /\ \E i \in Rows : \A f \in PriceFields : pre[i][f] = NULL
    /\ call.count = 1

\* the ids a custom call is to return from entry k on: in mapping order, the
\* id of each entry whose record exists and has a price that is not null and
\* whose percentage the entry supplies
RECURSIVE UpdatedFrom(_)
UpdatedFrom(k) ==
    IF k > Len(Items) THEN <<>>
    ELSE LET id == int(Items[k].key)
         IN  IF id \in Rows /\ \E f \in PriceFields : Supplies(k, f) /\ pre[id][f] # NULL
             THEN <<id>> \o UpdatedFrom(k + 1)
             ELSE UpdatedFrom(k + 1)

\* entry k names a record and every price of it the entry supplies a
\* percentage for is null
TargetsOnlyNull(k) ==
    /\ int(Items[k].key) \in Rows
    /\ \A f \in PriceFields : Supplies(k, f) => pre[int(Items[k].key)][f] = NULL

\* C8 (as claimed): a successful custom discount returns, in mapping order,
\* exactly the ids of the entries whose record exists and had a price both
\* targeted and not null; the record of an entry whose every targeted price is
\* null, unless another entry updates it, keeps its prices and its
\* updated_date and is not in the list, which may be empty.
C8_CustomReturnsUpdatedIds ==
    (call.op = "custom" /\ call.outcome = "ok") =>
        /\ call.result = UpdatedFrom(1)
        /\ \A k \in DOMAIN Items :
              LET id == int(Items[k].key)
              IN  (TargetsOnlyNull(k) /\ id \notin Range(UpdatedFrom(1))) =>
                      /\ \A f \in PriceFields : session[id][f] = pre[id][f]
                      /\ session[id].updated_date = pre[id].updated_date
                      /\ id \notin Range(call.result)

\* the last call is a custom call whose mapping passes every input check and
\* whose commit did not fail
WellFormedCall ==
    /\ call.op = "custom" /\ Len(Items) > 0
    /\ \A k \in DOMAIN Items : WellFormed(k)
    /\ call.commit # "failed"

\* C9 (as claimed): an entry of a custom mapping whose well-formed id names no
\* record is skipped: the call raises no error (status 200), the id is not in
\* the result and no row is created, while the entries naming records are
\* applied; a mapping naming no record at all returns an empty list and changes
\* nothing.
C9_MissingRecordSkipped ==
    WellFormedCall =>
        /\ call.outcome = "ok" /\ http_status(call.outcome) = 200
        /\ DOMAIN session = Rows /\ DOMAIN store = DOMAIN preStore
        /\ \A k \in DOMAIN Items :
              LET id == int(Items[k].key)
              IN  /\ id \notin Rows => id \notin Range(call.result)
                  /\ (id \in Rows /\ \E f \in PriceFields : Supplies(k, f) /\ pre[id][f] # NULL)
                         => /\ id \in Range(call.result)
                            /\ session[id].updated_date = call.ts
        /\ (\A k \in DOMAIN Items : int(Items[k].key) \notin Rows)
               => call.result = <<>> /\ session = pre

Accessories == {i \in Rows : pre[i].recommendation_type = "accessory"}

\* C10 (as claimed): a flat discount with a valid percentage fails with
\* ResourceNotFoundError (status 404) exactly when no accessory exists or every
\* accessory has both prices null; no record is changed then and nothing is
\* committed.
C10_FlatNotFound ==
    (call.op = "flat" /\ call.arg.v > 0 /\ call.arg.v < 10000) =>
        /\ (call.outcome = "ResourceNotFoundError")
               <=> \/ Accessories = {}
                   \/ \A i \in Accessories : \A f \in PriceFields : pre[i][f] = NULL
        /\ call.outcome = "ResourceNotFoundError" =>
               /\ http_status(call.outcome) = 404
               /\ session = pre /\ store = preStore /\ call.commit = "none"

\* ------------------------------------------------------------------
\* Properties of the HTTP endpoint
\* ------------------------------------------------------------------
\* the request of the last call carries the discount query parameter
HasDiscountParam == "request" \in DOMAIN call /\ call.request.discount # None

\* the string spells a number strictly between 0 and 100
InOpenInterval(value) ==
    LET pct == Decimal(value)
    IN  /\ pct.kind = "finite" /\ ~pct.negative
        /\ pct.coeff > 0
        /\ pct.coeff < 100 * Pow10(pct.places)

\* C11 (as claimed): validate_discount_percent accepts a value if and only if
\* it spells a number strictly between 0 and 100, and every other value (no
\* number, 0, negative, 100, above 100) is rejected as a validation error,
\* a 400 with "Discount must be between 0 and 100".
C11_ValidatePercentage ==
    HasDiscountParam =>
        LET value == call.request.discount.v
        IN  /\ call.validated = "ok" <=> InOpenInterval(value)
            /\ ~InOpenInterval(value) => call.validated = "abort" /\ call.status = 400

\* ------------------------------------------------------------------
\* Properties of the input checks of apply_custom_discounts
\* ------------------------------------------------------------------
\* the value is a percentage by the rule of validate_discount_percent: a
\* number, or a string spelling one, strictly between 0 and 100
ValidPercentage(value) ==
    \/ value.t = "num" /\ value.v > 0 /\ value.v < 10000
    \/ value.t = "str" /\ InOpenInterval(value.v)

\* the configuration of entry k is an object with at least one price field
ShapeOk(k) ==
    /\ Items[k].config.t = "dict"
    /\ \E f \in PriceFields : Supplies(k, f)

\* entry k is an object whose percentages are all valid
PercentagesOk(k) ==
    \A f \in PriceFields : Supplies(k, f) => ValidPercentage(Items[k].config.v[f])

\* the last call is a custom call whose mapping has the right shape throughout
ShapedCall ==
    /\ call.op = "custom" /\ Len(Items) > 0
    /\ \A k \in DOMAIN Items : is_numeric_key(Items[k].key) /\ ShapeOk(k)

\* C12 (as claimed): in a custom call every percentage present in an entry
\* is held to the rule of validate_discount_percent: when every one is a number
\* or a numeric string in (0, 100) the call passes validation, and when one is
\* not the call fails with DataValidationError (status 400), never otherwise.
C12_PercentagesValidated ==
    ShapedCall =>
        /\ (\A k \in DOMAIN Items : PercentagesOk(k))
               => call.outcome = "ok" \/ call.commit = "failed"
        /\ (\E k \in DOMAIN Items : ~PercentagesOk(k))
               => call.outcome = "DataValidationError" /\ http_status(call.outcome) = 400

\* the mapping of the last custom call has a malformed shape: it is empty or
\* no dict, or the configuration of an entry is empty, no dict, or without
\* a price field
MalformedShape ==
    /\ call.op = "custom"
    /\ \/ call.arg.t # "dict"
       \/ Len(call.arg.v) = 0
       \/ \E k \in DOMAIN Items : ~ShapeOk(k)

\* C13 (as claimed): a custom call whose mapping has a malformed shape fails
\* as a whole with DataValidationError.
C13_MalformedShapeRejected ==
    MalformedShape => call.outcome = "DataValidationError"

\* C14 (as claimed): a flat discount whose percent is out of range or spells
\* no number is rejected before the store is touched: the request fails with
\* the validation error (status 400, not 404) whether or not an accessory
\* exists, and no record is changed, in the session or in the store.
C14_InvalidPercentRejectedFirst ==
    (HasDiscountParam /\ ~InOpenInterval(call.request.discount.v)) =>
        /\ call.status = 400
        /\ call.commit = "none"
        /\ session = pre /\ store = preStore

\* ------------------------------------------------------------------
\* Frame properties
\* ------------------------------------------------------------------
\* C15 (as claimed): a flat discount, successful or failed, leaves every
\* record that is no accessory unchanged: its prices and updated_date are the
\* same before and after the call, as the session reads them and as the store
\* holds them, and its id is not among the updated ids.
C15_FlatLeavesOthersUnchanged ==
    call.op = "flat" =>
        \A i \in Rows : pre[i].recommendation_type # "accessory" =>
            /\ session[i] = pre[i]
            /\ store[i] = preStore[i]
            /\ i \notin Range(call.ids)

\* C16 (as claimed): a custom discount, successful or failed, leaves every
\* record that no key of the mapping names unchanged, whatever its type: its
\* prices and updated_date are the same before and after the call, as the
\* session reads them and as the store holds them, and its id is not among
\* the updated ids.
C16_CustomLeavesUnnamedUnchanged ==
    call.op = "custom" =>
        \A i \in Rows : (\A k \in DOMAIN Items : ~Names(k, i)) =>
            /\ session[i] = pre[i]
            /\ store[i] = preStore[i]
            /\ i \notin Range(call.ids)

\* the columns of a record that no discount is to change
KeptFields ==
    {"id", "base_product_id", "recommended_product_id", "recommendation_type",
     "status", "confidence_score"}

\* C17 (as claimed): a discount call, successful or failed, persists nothing
\* but changes of base_product_price, recommended_product_price and
\* updated_date of existing rows: the ids of the rows are the same before and
\* after, in the store and in the session, no row gains or loses a column, and
\* id, base_product_id, recommended_product_id, recommendation_type, status and
\* confidence_score of every row are unchanged.
C17_OnlyPricesAndDateChange ==
    IsDiscountCall =>
        /\ DOMAIN store = DOMAIN preStore
        /\ DOMAIN session = DOMAIN pre
        /\ \A i \in DOMAIN store :
              /\ store[i].id = i
              /\ DOMAIN store[i] = DOMAIN preStore[i]
              /\ DOMAIN store[i] = KeptFields \cup PriceFields \cup {"updated_date"}
              /\ \A f \in KeptFields :
                    store[i][f] = preStore[i][f] /\ session[i][f] = pre[i][f]

\* C18: a discount call commits at most once, after all of its row mutations:
\* when the call ends the store either is as before the call (no commit, or a
\* commit that failed and was rolled back) or holds every row as the session
\* holds it (the one commit, of all the mutations), so that no state has some
\* of the rows the call recomputed committed and others not; the call
\* returns normally exactly when its commit succeeded.
C18_NoPartialCommit ==
    IsDiscountCall =>
        /\ call.commit = "ok" => store = session
        /\ call.commit # "ok" => store = preStore
        /\ call.outcome = "ok" <=> call.commit = "ok"

C18_Witness ==
    /\ Rows = Ids
    /\ IsDiscountCall /\ call.commit = "ok"
    /\ Len(call.result) = 2
    /\ \A i \in Rows :
          /\ preStore[i].base_product_price = 10000
          /\ store[i].base_product_price = 9000
          /\ session[i] = store[i]

\* ------------------------------------------------------------------
\* Properties of concurrent requests
\* ------------------------------------------------------------------
\* the percentage the call of worker w applies to price field f of record i
\* (0 when the call does not go over it)
PercentOf(w, i, f) ==
    LET c == last[w]
        entries == IF c.op = "custom"
                   THEN {k \in DOMAIN c.arg.v :
                            int(c.arg.v[k].key) = i /\ f \in DOMAIN c.arg.v[k].config.v}
                   ELSE {}
    IN  IF c.op = "flat"
        THEN IF i \in DOMAIN c.loaded THEN c.arg.v ELSE 0
        ELSE IF entries # {}
        THEN c.arg.v[CHOOSE k \in entries : TRUE].config.v[f].v
        ELSE 0

\* the calls of w and v both loaded record i before either committed, both
\* committed, and v committed last
Raced(w, v, i) ==
    /\ w # v
    /\ last[w].pc = "done" /\ last[v].pc = "done"
    /\ last[w].commit = "ok" /\ last[v].commit = "ok"
    /\ i \in DOMAIN last[w].load_at /\ i \in DOMAIN last[v].load_at
    /\ last[w].load_at[i] < last[v].commit_at /\ last[v].load_at[i] < last[w].commit_at
    /\ last[w].commit_at < last[v].commit_at

\* C19: nothing serializes two discount calls: both can load a record before
\* either commits, no call waits, checks a version or retries, and then the
\* store keeps the last write: a price both calls recomputed ends up as the
\* price before both calls less the percentage of the call that committed
\* last, the discount of the other call being lost.
C19_LastWriterWins ==
    \A w, v \in Workers : \A i \in DOMAIN store : Raced(w, v, i) =>
        \A f \in PriceFields :
            (PercentOf(w, i, f) # 0 /\ PercentOf(v, i, f) # 0 /\ last[v].loaded[i][f] # NULL)
                => /\ last[w].loaded[i][f] = last[v].loaded[i][f]
                   /\ store[i][f] = ApplyPercentDiscount(last[v].loaded[i][f],
                                                         PercentOf(v, i, f))

\* the first request queries, the second queries, reads the clock and
\* commits, and then the first reads the clock and commits
C19_Witness ==
    /\ Raced(2, 1, 1)
    /\ last[1].op = "flat" /\ last[1].arg.v = 1000
    /\ last[2].op = "flat" /\ last[2].arg.v = 5000
    /\ last[1].load_at[1] < last[2].load_at[1]
    /\ last[2].commit_at < last[1].read_at
    /\ last[2].loaded[1].base_product_price = 10000
    /\ last[1].result = <<1>> /\ last[2].result = <<1>>
    /\ store[1].base_product_price = 9000

\* ------------------------------------------------------------------
\* Mode selection of the endpoint
\* ------------------------------------------------------------------
\* the percentage a discount query parameter spells, in hundredths of a percent
ParamPercent == hundredths(Decimal(call.request.discount.v))

\* C20: a request that carries the discount query parameter is handled in
\* flat mode whatever its body: the custom discount is not called, and when
\* the request succeeds every accessory has its prices discounted by the
\* percentage of the parameter and no other record has a price discounted,
\* the records a JSON body names included; the body is taken as a custom
\* mapping only in a request without the parameter.
C20_QueryParamSelectsFlat ==
    /\ HasDiscountParam =>
          /\ call.mode = "flat" /\ call.op # "custom"
          /\ call.status = 200 =>
                /\ call.op = "flat" /\ call.arg = Num(ParamPercent)
                /\ \A i \in Rows :
                      IF pre[i].recommendation_type = "accessory"
                      THEN \A f \in PriceFields :
                              session[i][f] = IF pre[i][f] = NULL THEN NULL
                                              ELSE ApplyPercentDiscount(pre[i][f], ParamPercent)
                      ELSE \A f \in PriceFields : session[i][f] = pre[i][f]
    /\ call.op = "custom" =>
          /\ call.request.discount = None
          /\ call.arg = call.request.data

\* a request with the parameter and a JSON mapping naming a record that is
\* no accessory: the accessory is discounted by the parameter, the named
\* record keeps its price
C20_Witness ==
    /\ HasDiscountParam /\ call.status = 200
    /\ call.request.discount.v = <<"1", "0">>
    /\ call.request.content_type = "application/json"
    /\ call.request.data.t = "dict" /\ Len(call.request.data.v) = 1
    /\ call.request.data.v[1].key = <<"2">>
    /\ pre[1].recommendation_type = "accessory" /\ pre[2].recommendation_type = "cross-sell"
    /\ pre[1].base_product_price = 10000 /\ session[1].base_product_price = 9000
    /\ pre[2].base_product_price = 10000 /\ session[2].base_product_price = 10000

\* ------------------------------------------------------------------
\* Status codes of the endpoint
\* ------------------------------------------------------------------
\* the request reached a call of the engine
EngineCalled == call.op \in {"flat", "custom"} /\ call.arg # None

\* C21: the endpoint maps every outcome of the engine call to a status code:
\* success to 200 (in flat mode with updated_count equal to the length of
\* updated_ids), DataValidationError to 400 and ResourceNotFoundError to 404;
\* the engine call of a request ends in no other way and no other status is
\* answered.
C21_EngineOutcomeStatus ==
    EngineCalled =>
        /\ call.outcome \in {"ok", "DataValidationError", "ResourceNotFoundError"}
        /\ call.outcome = "ok" =>
              /\ call.status = 200
              /\ call.mode = "flat" => call.count = Len(call.result)
        /\ call.outcome = "DataValidationError" => call.status = 400
        /\ call.outcome = "ResourceNotFoundError" => call.status = 404

\* the request carries no discount parameter and no body that get_json can
\* read: no bytes, bytes that are no JSON, or a body not sent as
\* application/json
NeitherParamNorJsonBody ==
    /\ "request" \in DOMAIN call
    /\ call.request.discount = None
    /\ \/ call.request.data \in {NoData, NotJson}
       \/ call.request.content_type # "application/json"

\* the request names another media type for a body it carries
OtherMediaType ==
    /\ call.request.content_type \notin {"", "application/json"}
    /\ call.request.data # NoData

RoundPrices == 0..MaxCents \cup {1909, 10000}

\* percentages of the calls: 10%, 50% and 99.99%
RoundPercents == {1000, 5000, 9999}

\* an accessory with a base price of every amount, and a second accessory
\* with or without a price
RoundStores ==
    {<<[InitRow(1, 1, 3) EXCEPT !.base_product_price = p], InitRow(2, 1, q)>> :
        p \in RoundPrices, q \in {1, 2}}

\* a custom discount of the base price of the first row
RoundMappings ==
    {Dict(<<[key |-> <<"1">>, config |-> Dict([base_product_price |-> Num(d)])]>>) :
        d \in RoundPercents}

\* a custom discount whose two keys, "1" and "01", spell the same id
SameIdMappings ==
    {Dict(<<[key |-> <<"1">>, config |-> Dict([base_product_price |-> Num(1000)])],
            [key |-> <<"0", "1">>, config |-> Dict([base_product_price |-> Num(5000)])]>>)}

\* the caller keeps the result of the call before the last one, and makes
\* its calls one right after the other
SeqInit ==
    /\ store \in RoundStores
    /\ session = store
    /\ flushed = store
    /\ loaded = {}
    /\ sequence = 3
    /\ clock = 1
    /\ last = [call |-> NoCall, pre |-> store, preStore |-> store,
               before |-> [call |-> NoCall, pre |-> store]]

NextFlatCall == FlatCall(RoundPercents)

NextCustomCall == CustomCall(RoundMappings \cup SameIdMappings)

SeqNext ==
    \/ NextFlatCall \/ NextCustomCall
    \/ Find \/ All \/ UpdateRecommendation \/ Create \/ Delete

SeqSpec == SeqInit /\ [][SeqNext]_vars

\* ------------------------------------------------------------------
\* Rounding
\* ------------------------------------------------------------------
\* the percentage the last call applied to the field of the record (0: none)
AppliedPercent(i, f) ==
    IF call.op = "flat"
    THEN IF pre[i].recommendation_type = "accessory" THEN call.arg.v ELSE 0
    ELSE IF call.op = "custom" /\ Len(Items) = 1 /\ i = 1 /\ f = "base_product_price"
    THEN call.arg.v[1].config.v.base_product_price.v
    ELSE 0

\* C23: rounding law. A non-negative price of p cents discounted by d
\* hundredths of a percent, 0 < d < 10000, becomes a whole number of cents
\* (two fractional digits), the nearest one to p * (10000 - d) / 10000 with a
\* tie rounded up, which is floor((p * (10000 - d) + 5000) / 10000).
C23_RoundingLaw ==
    (IsDiscountCall /\ call.outcome = "ok") =>
        \A i \in Rows : \A f \in PriceFields :
            (AppliedPercent(i, f) # 0 /\ pre[i][f] # NULL) =>
                LET p == pre[i][f]
                    d == AppliedPercent(i, f)
                    exact == p * (10000 - d)
                    r == session[i][f]
                IN  /\ r \in Nat
                    /\ r = (exact + 5000) \div 10000
                    /\ 2 * (10000 * r - exact) <= 10000
                    /\ 2 * (exact - 10000 * r) < 10000

\* 19.09 at 50% is 9.545, a tie, and becomes 9.55
C23_Witness ==
    /\ Rows = Ids
    /\ call.op = "flat" /\ call.outcome = "ok" /\ call.arg.v = 5000
    /\ pre[1].base_product_price = 1909
    /\ session[1].base_product_price = 955

\* ------------------------------------------------------------------
\* Validation and commit of a custom discount
\* ------------------------------------------------------------------
\* C24: a custom discount validates every entry before it changes anything
\* and commits once: a call that fails validation (DataValidationError, no
\* commit attempted) leaves the session as it found it, and a discount call
\* that succeeds changes, in the store, only the records whose ids it returns.
C24_ValidateAllThenCommitOnce ==
    /\ (call.op = "custom" /\ call.outcome = "DataValidationError"
            /\ call.commit = "none") => session = pre
    /\ (IsDiscountCall /\ call.outcome = "ok") =>
          \A i \in Rows : store[i] # preStore[i] => i \in Range(call.result)

\* ------------------------------------------------------------------
\* Order of validation and lookup in a custom discount
\* ------------------------------------------------------------------
\* entry k fails an input check: its key is no numeral, its configuration
\* has not the shape of one, or a percentage of it is not valid
Invalid(k) == ~is_numeric_key(Items[k].key) \/ ~ShapeOk(k) \/ ~PercentagesOk(k)

\* entry k names no existing record
NamesNoRecord(k) == \A i \in Rows : ~Names(k, i)

\* C25: in a custom discount the input checks of an entry come before the
\* lookup of its record: the first invalid entry fails the whole call with
\* DataValidationError even when it names no existing record, and a call
\* succeeds, skipping the entries of missing records, only when every entry
\* passes the input checks.
C25_ValidationPrecedesLookup ==
    call.op = "custom" =>
        /\ \A k \in DOMAIN Items :
              (NamesNoRecord(k) /\ Invalid(k) /\ \A j \in 1..(k - 1) : ~Invalid(j))
                  => call.outcome = "DataValidationError" /\ call.commit = "none"
        /\ call.outcome = "ok" => \A k \in DOMAIN Items : ~Invalid(k)

\* ------------------------------------------------------------------
\* Keys of a custom discount that spell the same id
\* ------------------------------------------------------------------
\* the percentages the entries of the last custom call supply for price
\* field f of record i
SuppliedPercents(i, f) ==
    {Items[k].config.v[f].v : k \in {j \in DOMAIN Items : Names(j, i) /\ Supplies(j, f)}}

\* C26: in one custom discount each record is discounted at most once per
\* price field and its id is at most once in the returned list, even when two
\* keys of the mapping spell the same id.
C26_DiscountedAtMostOnce ==
    (call.op = "custom" /\ call.outcome = "ok") =>
        /\ \A a, b \in DOMAIN call.result : a # b => call.result[a] # call.result[b]
        /\ \A i \in Rows : \A f \in PriceFields :
              \/ session[i][f] = pre[i][f]
              \/ \E d \in SuppliedPercents(i, f) :
                    session[i][f] = ApplyPercentDiscount(pre[i][f], d)

\* ------------------------------------------------------------------
\* Specification of calls on a record created with a negative price
\* ------------------------------------------------------------------
\* deserialize() takes any decimal as a price and the columns are signed:
\* a record can be created with a base price of -100.00
SignedStores ==
    {<<[InitRow(1, 1, p) EXCEPT !.base_product_price = -10000], InitRow(2, t, 4)>> :
        p \in {3, 4}, t \in DOMAIN InitTypes}

SignedInit ==
    /\ store \in SignedStores
    /\ session = store
    /\ flushed = store
    /\ loaded = {}
    /\ sequence = 3
    /\ clock = 1
    /\ last = [call |-> NoCall, pre |-> store, preStore |-> store]

SignedSpec == SignedInit /\ [][Next]_vars

\* ------------------------------------------------------------------
\* Monotonicity of prices
\* ------------------------------------------------------------------
\* C27: a discount call never increases a price and never makes it
\* negative: after every call each price that is not null is non-negative and
\* at most what it was before the call, as the session reads it and as the
\* store holds it.
C27_PricesNeverIncrease ==
    IsDiscountCall =>
        \A i \in Rows : \A f \in PriceFields :
            /\ session[i][f] # NULL =>
                  session[i][f] >= 0 /\ session[i][f] <= pre[i][f]
            /\ store[i][f] # NULL =>
                  store[i][f] >= 0 /\ store[i][f] <= preStore[i][f]

\* ------------------------------------------------------------------
\* Successive flat discounts
\* ------------------------------------------------------------------
\* the call before the last one, and the rows it found
before == last.before

\* the last two calls are flat discounts that succeeded
TwoFlatCalls ==
    /\ call.op = "flat" /\ call.outcome = "ok"
    /\ before.call.op = "flat" /\ before.call.outcome = "ok"

\* C28: discounts compound. After two successive successful flat discounts
\* of d1 then d2, every accessory price that is not null is the price of
\* before the first call discounted by d1, rounded, then discounted by d2,
\* rounded again; and both calls return the same set of ids.
C28_FlatDiscountsCompound ==
    TwoFlatCalls =>
        /\ \A i \in Rows : \A f \in PriceFields :
              (pre[i].recommendation_type = "accessory" /\ before.pre[i][f] # NULL) =>
                  session[i][f] =
                      ApplyPercentDiscount(
                          ApplyPercentDiscount(before.pre[i][f], before.call.arg.v),
                          call.arg.v)
        /\ Range(call.result) = Range(before.call.result)

\* 0.05 at 50% is 0.03, and 0.03 at 50% is 0.02 (0.05 at 75% would be 0.01)
C28_Witness ==
    /\ Rows = Ids
    /\ TwoFlatCalls
    /\ before.call.arg.v = 5000 /\ call.arg.v = 5000
    /\ before.pre[1].base_product_price = 5
    /\ pre[1].base_product_price = 3
    /\ session[1].base_product_price = 2 /\ store[1].base_product_price = 2
    /\ before.pre[2].recommended_product_price = 5000
    /\ session[2].recommended_product_price = 1250
    /\ Range(call.result) = {1, 2}

\* ------------------------------------------------------------------
\* Timestamp of a call
\* ------------------------------------------------------------------
\* the records the last call updated: those it recomputed a price of, unless
\* its commit failed and the transaction was rolled back
UpdatedByCall == IF call.commit = "failed" THEN {} ELSE Range(call.ids)

\* C29: every record updated by a discount call has the one timestamp of
\* that call as its updated_date, and every record the call did not update
\* keeps the updated_date it had before the call, in the session and, once
\* the call has committed, in the store.
C29_OneTimestampPerCall ==
    IsDiscountCall =>
        \A i \in Rows :
            /\ session[i].updated_date =
                  IF i \in UpdatedByCall THEN call.ts ELSE pre[i].updated_date
            /\ call.outcome = "ok" =>
                  store[i].updated_date =
                      IF i \in UpdatedByCall THEN call.ts ELSE preStore[i].updated_date

\* ------------------------------------------------------------------
\* Specification of calls of update
\* ------------------------------------------------------------------
\* items of a payload: values of the three updatable fields, valid and not,
\* and a field that is not updatable
UpdateItems ==
    {[key |-> "status", value |-> Str(v)] :
        v \in {chars("inactive"), <<" ", "I", "n", "a", "c", "t", "i", "v", "e">>,
               <<"u", "n", "k", "n", "o", "w", "n">>, <<" ">>}}
    \cup {[key |-> "recommendation_type", value |-> Str(v)] :
             v \in {<<"U", "P", "-", "S", "E", "L", "L">>, <<"b", "o", "g", "u", "s">>}}
    \cup {[key |-> "confidence_score", value |-> v] :
             v \in {Num(90), Num(150), Str(<<"0", ".", "9">>), Str(<<"a", "b", "c">>),
                    Str(<<"N", "a", "N">>)}}
    \cup {[key |-> "base_product_price", value |-> Num(1000)]}

\* payloads: the items of a dict, its keys distinct
Payloads ==
    {<<>>} \cup
    {data \in UNION {[1..n -> UpdateItems] : n \in 1..MaxEntries} :
        \A i, j \in DOMAIN data : i # j => data[i].key # data[j].key}

\* the stores before the first call of update
UpdateStores == {<<InitRow(1, 1, 4), InitRow(2, 2, 2)>>}

UpdateInit ==
    /\ store \in UpdateStores
    /\ session = store
    /\ flushed = store
    /\ loaded = {}
    /\ sequence = 3
    /\ clock = 1
    /\ last = [call |-> NoCall, pre |-> store, preStore |-> store]

\* a PUT /recommendations/<id> request
Update == UpdateCall(Payloads)

UpdateNext == Update \/ Find \/ All \/ Return \/ SessionRemove

UpdateSpec == UpdateInit /\ [][UpdateNext]_vars

\* ------------------------------------------------------------------
\* Failure of an update
\* ------------------------------------------------------------------
\* the fields update can change
UpdatableFields == {"recommendation_type", "status", "confidence_score"}

\* C30: an update whose payload fails validation raises DataValidationError
\* (status 400) and leaves the record unchanged, the valid fields that come
\* before the invalid one in the payload included; a payload with a field
\* that is not updatable fails validation; and no update changes a price.
C30_FailedUpdateChangesNothing ==
    call.op = "update" =>
        /\ (call.outcome # "ok" /\ call.commit = "none") =>
              /\ call.outcome = "DataValidationError"
              /\ http_status(call.outcome) = 400
              /\ session = pre /\ store = preStore
        /\ (\E k \in DOMAIN call.arg : call.arg[k].key \notin UpdatableFields)
              => call.outcome # "ok"
        /\ \A i \in Rows : \A f \in PriceFields :
              session[i][f] = pre[i][f] /\ store[i][f] = preStore[i][f]

====
